---- MODULE Spec2Model ----
(***************************************************************************)
(* StreamPad (kennycason/streampad): controller input normalisation and    *)
(* the DDR note lifecycle of src/streampad.py, as a state machine.         *)
(*                                                                         *)
(* Two threads run the program: the foreground loop (run / handle_events)  *)
(* and the background poller (global_input_monitor_loop).  Both call the   *)
(* emission functions on_button_press / on_button_release, which take the  *)
(* non-reentrant threading.Lock global_input_lock.                         *)
(*                                                                         *)
(* Time is in integer milliseconds (time.time() * 1000).  Note heights and *)
(* positions are in hundredths of a pixel, so that 0.08 px/ms and          *)
(* 0.15 px/ms are the integers 8 and 15.                                   *)
(***************************************************************************)
EXTENDS Integers, Sequences, FiniteSets, TLC

VARIABLES
    \* ---- the world outside the program ----
    now,                \* wall clock, ms
    attached,           \* device ids currently plugged in, in enumeration order
    raw_buttons,        \* device id -> set of raw button indices held down
    raw_hat,            \* device id -> hat vector <<hx, hy>>
    raw_axes,           \* device id -> [axis index -> value in tenths]
    display_active,     \* pygame.display.get_active()
    queue,              \* SDL event queue (events not yet fetched)
    inputs,             \* number of actions the world has taken so far
    raw_presses,        \* number of physical button presses made so far
    hat_moved,          \* the time the program last took a hat event, or NoTime
    \* ---- StreamPadPygame fields ----
    controllers,        \* self.controllers: index -> device id
    active_controller,  \* device id, or None
    controller_type,
    nintendo_hat_only,
    button_states,      \* dict: logical id -> BOOLEAN (partial)
    last_button_states, \* dict, only ever cleared
    last_axis_states,   \* dict: direction key -> BOOLEAN (partial)
    last_hat_state,
    last_global_button_states, \* dict: raw index -> BOOLEAN (partial)
    last_global_hat_state,
    last_hat_event_time,
    button_press_count, \* dict: logical id -> count (partial)
    total_presses,
    notes,              \* list of DDRNote
    active_notes,       \* dict: logical id -> the note object (by identity, nid)
    next_nid,           \* identity of the next DDRNote object allocated
    global_input_lock,  \* "free", or the thread that holds it
    global_input_enabled,
    join_started,       \* the time cleanup began to wait for the poller, or NoTime
    \* ---- the two threads' positions and locals ----
    fg_pc, events, last_tick, dt, validation_timer,
    bg_pc,
    \* ---- what the last step did (observation only) ----
    emitted,            \* emission-function bodies run by the last step, in order
    lookup              \* the last call of a lookup function made on its own, with its result

world  == <<now, attached, raw_buttons, raw_hat, raw_axes, display_active, queue, inputs,
            raw_presses, hat_moved>>
devs   == <<controllers, active_controller, controller_type, nintendo_hat_only>>
store  == <<button_states, button_press_count, total_presses, notes, active_notes, next_nid>>
snaps  == <<last_button_states, last_axis_states, last_hat_state,
            last_global_button_states, last_global_hat_state, last_hat_event_time>>
fgloc  == <<fg_pc, events, last_tick, dt, validation_timer>>
steady == <<global_input_enabled, lookup, join_started>>
vars   == <<world, devs, store, snaps, global_input_lock, steady,
            fgloc, bg_pc, emitted>>

----------------------------------------------------------------------------
\* Bounds of the model

\* number of actions the world takes: button, hat and axis changes, keys, the
\* window changing state, a device being unplugged, a clock advance
MaxInputs == 3

\* the wall clock's last value where time passes between inputs (Sleep)
MaxNow == 2100

----------------------------------------------------------------------------
\* Program constants

hat_button_debounce_ms == 30
validation_interval_ms == 2000
min_note_height == 8
initial_bottom == 5
lane_height == 500
\* growth_rate and note_speed, in hundredths of a pixel per millisecond
growth_rate == 8
note_speed == 15

\* get_button_mapping's None
None == "None"
\* Optional[float] None, Optional[Joystick] None
NoTime == -1
NoDevice == 0

BUTTON_ORDER == <<"14", "12", "15", "13", "2", "3", "0", "1", "4", "5", "6", "7", "8", "9">>

InOrder(id) == \E k \in DOMAIN BUTTON_ORDER : BUTTON_ORDER[k] = id

\* Python dict helpers: d[k] = v, d.get(k, default), del d[k]
Put(d, k, v) == [x \in (DOMAIN d) \cup {k} |-> IF x = k THEN v ELSE d[x]]
Get(d, k, default) == IF k \in DOMAIN d THEN d[k] ELSE default
EmptyDict == <<>>
Del(d, k) == IF (DOMAIN d) \ {k} = {} THEN EmptyDict ELSE [x \in (DOMAIN d) \ {k} |-> d[x]]

----------------------------------------------------------------------------
\* Controller families and the mapping tables

Families == {"SWITCH_PRO", "SNES_SWITCH", "PS4", "PS5", "XBOX", "GENERIC"}

\* detect_controller_type with the generic Nintendo test made before the Switch
\* Pro test
detect_controller_type_switch_first(name) ==
    IF "nintendo" \in name \/ "switch" \in name \/ "snes" \in name THEN "SNES_SWITCH"
    ELSE IF "pro controller" \in name \/ "switch pro" \in name THEN "SWITCH_PRO"
    ELSE IF "ps4" \in name \/ "dualshock" \in name THEN "PS4"
    ELSE IF "ps5" \in name \/ "dualsense" \in name THEN "PS5"
    ELSE IF "xbox" \in name \/ "microsoft" \in name THEN "XBOX"
    ELSE "GENERIC"

\* A device name is modelled by the set of keywords its lower-cased form contains.
detect_controller_type(name) ==
    IF "pro controller" \in name \/ "switch pro" \in name THEN "SWITCH_PRO"
    ELSE IF "nintendo" \in name \/ "switch" \in name \/ "snes" \in name THEN "SNES_SWITCH"
    ELSE IF "ps4" \in name \/ "dualshock" \in name THEN "PS4"
    ELSE IF "ps5" \in name \/ "dualsense" \in name THEN "PS5"
    ELSE IF "xbox" \in name \/ "microsoft" \in name THEN "XBOX"
    ELSE "GENERIC"

DefaultMapping ==
    (0 :> "1") @@ (1 :> "0") @@ (2 :> "2") @@ (3 :> "3") @@ (4 :> "4") @@ (5 :> "5") @@
    (6 :> "8") @@ (7 :> "9") @@ (8 :> "8") @@ (9 :> "9") @@ (10 :> "4") @@ (11 :> "5") @@
    (12 :> "12") @@ (13 :> "13") @@ (14 :> "14") @@ (15 :> "15")

SwitchProMapping ==
    (0 :> "1") @@ (1 :> "0") @@ (2 :> "2") @@ (3 :> "3") @@
    (4 :> "8") @@ (6 :> "9") @@ (7 :> "10") @@ (8 :> "11") @@ (9 :> "4") @@ (10 :> "5") @@
    (11 :> "12") @@ (12 :> "13") @@ (13 :> "14") @@ (14 :> "15")

SnesOverrides ==
    (11 :> "12") @@ (12 :> "13") @@ (13 :> "14") @@ (14 :> "15") @@
    (9 :> "4") @@ (10 :> "5") @@
    (0 :> "1") @@ (1 :> "0") @@ (2 :> "2") @@ (3 :> "3") @@
    (4 :> "8") @@ (6 :> "9")

\* the mapping with the Switch Pro table laid over the generic one, the way the
\* SNES table is
MappingTable_overlaying(family) ==
    IF family = "SWITCH_PRO" THEN SwitchProMapping @@ DefaultMapping
    ELSE IF family = "SNES_SWITCH" THEN SnesOverrides @@ DefaultMapping
    ELSE DefaultMapping

\* mapping.update(overrides): the left operand of @@ wins
MappingTable(family) ==
    IF family = "SWITCH_PRO" THEN SwitchProMapping
    ELSE IF family = "SNES_SWITCH" THEN SnesOverrides @@ DefaultMapping
    ELSE DefaultMapping

\* get_button_mapping that falls back on the generic table for an index the
\* family's table does not list
get_button_mapping_falling_back(family, pygame_button) ==
    Get(MappingTable(family), pygame_button, Get(DefaultMapping, pygame_button, None))

get_button_mapping(family, pygame_button) == Get(MappingTable(family), pygame_button, None)

----------------------------------------------------------------------------
\* The devices of the model: what pygame reports for each

DeviceIds == {1, 2, 3, 4, 5}

Device ==
    (1 :> [name |-> {"nintendo", "switch", "switch pro", "pro controller"},
           numbuttons |-> 16, numaxes |-> 6, numhats |-> 1]) @@
    (2 :> [name |-> {"xbox"},
           numbuttons |-> 16, numaxes |-> 6, numhats |-> 1]) @@
    (3 :> [name |-> {"snes", "switch"},
           numbuttons |-> 16, numaxes |-> 6, numhats |-> 1]) @@
    (4 :> [name |-> {"ps4"},
           numbuttons |-> 16, numaxes |-> 4, numhats |-> 1]) @@
    (5 :> [name |-> {"ps5"},
           numbuttons |-> 16, numaxes |-> 5, numhats |-> 1])

NeutralAxes == [a \in 0 .. 5 |-> 0]

----------------------------------------------------------------------------
\* The Button State Store and the note lifecycle, as functions of a store record
\*   s = [button_states, button_press_count, total_presses, notes, active_notes,
\*        next_nid, log]
\* log is the list of emission-function bodies run so far in the current step.

Store ==
    [button_states |-> button_states, button_press_count |-> button_press_count,
     total_presses |-> total_presses, notes |-> notes, active_notes |-> active_notes,
     next_nid |-> next_nid, log |-> <<>>]

IsPressed(bs, id) == id \in DOMAIN bs /\ bs[id]

\* create_ddr_note without the "if button_id not in BUTTON_ORDER: return" test
create_ddr_note_without_lane_test(s, button_id, t) ==
    LET height == min_note_height * 100
        bottom == (lane_height - initial_bottom) * 100
        note == [nid |-> s.next_nid, button_id |-> button_id,
                 start_time |-> t, end_time |-> NoTime, is_growing |-> TRUE,
                 height |-> height, y |-> bottom - height,
                 initial_bottom |-> bottom]
    IN [s EXCEPT !.notes = Append(@, note),
                 !.active_notes = Put(@, button_id, note.nid),
                 !.next_nid = @ + 1]

create_ddr_note(s, button_id, t) ==
    IF ~InOrder(button_id) THEN s
    ELSE LET height == min_note_height * 100
             bottom == (lane_height - initial_bottom) * 100
             note == [nid |-> s.next_nid, button_id |-> button_id,
                      start_time |-> t, end_time |-> NoTime, is_growing |-> TRUE,
                      height |-> height, y |-> bottom - height,
                      initial_bottom |-> bottom]
         IN [s EXCEPT !.notes = Append(@, note),
                      !.active_notes = Put(@, button_id, note.nid),
                      !.next_nid = @ + 1]

\* end_ddr_note that forgets the note in active_notes but does not stop its
\* growth
end_ddr_note_still_growing(s, button_id, t) ==
    IF button_id \in DOMAIN s.active_notes
    THEN [s EXCEPT !.active_notes = Del(@, button_id)]
    ELSE s

\* end_ddr_note without "del self.active_notes[button_id]": the note stops
\* growing but stays the entry of its id
end_ddr_note_keeping_entry(s, button_id, t) ==
    IF button_id \in DOMAIN s.active_notes
    THEN LET nid == s.active_notes[button_id]
         IN [s EXCEPT !.notes = [k \in DOMAIN @ |->
                                    IF @[k].nid = nid
                                    THEN [@[k] EXCEPT !.is_growing = FALSE, !.end_time = t]
                                    ELSE @[k]]]
    ELSE s

end_ddr_note(s, button_id, t) ==
    IF button_id \in DOMAIN s.active_notes
    THEN LET nid == s.active_notes[button_id]
         IN [s EXCEPT !.notes = [k \in DOMAIN @ |->
                                    IF @[k].nid = nid
                                    THEN [@[k] EXCEPT !.is_growing = FALSE, !.end_time = t]
                                    ELSE @[k]],
                      !.active_notes = Del(@, button_id)]
    ELSE s

\* on_button_press with the already-pressed test left out: the body a press would
\* run if a second press of a held id counted again
on_button_press_unguarded(s, button_id, t, thread) ==
    create_ddr_note(
      [s EXCEPT !.button_states = Put(@, button_id, TRUE),
                !.button_press_count = Put(@, button_id, Get(@, button_id, 0) + 1),
                !.total_presses = @ + 1,
                !.log = Append(@, [op |-> "press", id |-> button_id,
                                   by |-> thread, applied |-> TRUE])],
      button_id, t)

\* on_button_release with the not-pressed test left out: it writes False for the
\* id and ends whatever note the id owns
on_button_release_unguarded(s, button_id, t, thread) ==
    end_ddr_note(
      [s EXCEPT !.button_states = Put(@, button_id, FALSE),
                !.log = Append(@, [op |-> "release", id |-> button_id,
                                   by |-> thread, applied |-> TRUE])],
      button_id, t)

\* on_button_press that leaves the counters of a held id alone but starts a note
\* for it all the same
on_button_press_always_noting(s, button_id, t, thread) ==
    IF IsPressed(s.button_states, button_id)
    THEN create_ddr_note(
           [s EXCEPT !.log = Append(@, [op |-> "press", id |-> button_id,
                                        by |-> thread, applied |-> FALSE])],
           button_id, t)
    ELSE create_ddr_note(
           [s EXCEPT !.button_states = Put(@, button_id, TRUE),
                     !.button_press_count = Put(@, button_id, Get(@, button_id, 0) + 1),
                     !.total_presses = @ + 1,
                     !.log = Append(@, [op |-> "press", id |-> button_id,
                                        by |-> thread, applied |-> TRUE])],
           button_id, t)

\* on_button_press, once the lock is held
on_button_press(s, button_id, t, thread) ==
    IF IsPressed(s.button_states, button_id)
    THEN [s EXCEPT !.log = Append(@, [op |-> "press", id |-> button_id,
                                       by |-> thread, applied |-> FALSE])]
    ELSE create_ddr_note(
           [s EXCEPT !.button_states = Put(@, button_id, TRUE),
                     !.button_press_count = Put(@, button_id, Get(@, button_id, 0) + 1),
                     !.total_presses = @ + 1,
                     !.log = Append(@, [op |-> "press", id |-> button_id,
                                        by |-> thread, applied |-> TRUE])],
           button_id, t)

\* on_button_release that ends the note of a pressed id but leaves the id marked
\* pressed
on_button_release_keeping_state(s, button_id, t, thread) ==
    IF ~IsPressed(s.button_states, button_id)
    THEN [s EXCEPT !.log = Append(@, [op |-> "release", id |-> button_id,
                                       by |-> thread, applied |-> FALSE])]
    ELSE end_ddr_note(
           [s EXCEPT !.log = Append(@, [op |-> "release", id |-> button_id,
                                        by |-> thread, applied |-> TRUE])],
           button_id, t)

\* on_button_release that looks at the hardware first: the id stays pressed as
\* long as a raw button of the active device that maps to it is held
on_button_release_unless_held(s, button_id, t, thread) ==
    IF ~IsPressed(s.button_states, button_id)
       \/ (active_controller # NoDevice /\
           \E i \in raw_buttons[active_controller] :
               get_button_mapping(controller_type, i) = button_id)
    THEN [s EXCEPT !.log = Append(@, [op |-> "release", id |-> button_id,
                                       by |-> thread, applied |-> FALSE])]
    ELSE end_ddr_note(
           [s EXCEPT !.button_states = Put(@, button_id, FALSE),
                     !.log = Append(@, [op |-> "release", id |-> button_id,
                                        by |-> thread, applied |-> TRUE])],
           button_id, t)

\* on_button_release, once the lock is held
on_button_release(s, button_id, t, thread) ==
    IF ~IsPressed(s.button_states, button_id)
    THEN [s EXCEPT !.log = Append(@, [op |-> "release", id |-> button_id,
                                       by |-> thread, applied |-> FALSE])]
    ELSE end_ddr_note(
           [s EXCEPT !.button_states = Put(@, button_id, FALSE),
                     !.log = Append(@, [op |-> "release", id |-> button_id,
                                        by |-> thread, applied |-> TRUE])],
           button_id, t)

\* a handler's emission calls <<op, id>>, made one after the other
RECURSIVE ApplyCalls(_, _, _, _)
ApplyCalls(s, calls, t, thread) ==
    IF calls = <<>> THEN s
    ELSE LET c == Head(calls)
             s1 == IF c[1] = "press" THEN on_button_press(s, c[2], t, thread)
                   ELSE on_button_release(s, c[2], t, thread)
         IN ApplyCalls(s1, Tail(calls), t, thread)

\* the store variables take the values of record s
SetStore(s) ==
    /\ button_states' = s.button_states
    /\ button_press_count' = s.button_press_count
    /\ total_presses' = s.total_presses
    /\ notes' = s.notes
    /\ active_notes' = s.active_notes
    /\ next_nid' = s.next_nid
    /\ emitted' = s.log

\* update_ddr_notes that measures the travel of a released note from its
\* creation, not from its release
UpdatedNote_travelling_from_start(n, t) ==
    IF n.is_growing
    THEN LET h == min_note_height * 100 + (t - n.start_time) * growth_rate
         IN [n EXCEPT !.height = h, !.y = n.initial_bottom - h]
    ELSE [n EXCEPT !.y = n.initial_bottom - n.height - (t - n.start_time) * note_speed]

\* update_ddr_notes that goes on computing the height of a released note from
\* the time since its creation
UpdatedNote_stretching(n, t) ==
    LET h == min_note_height * 100 + (t - n.start_time) * growth_rate
    IN IF n.is_growing
       THEN [n EXCEPT !.height = h, !.y = n.initial_bottom - h]
       ELSE [n EXCEPT !.height = h,
                      !.y = n.initial_bottom - h - (t - n.end_time) * note_speed]

\* update_ddr_notes at time t
UpdatedNote(n, t) ==
    IF n.is_growing
    THEN LET h == min_note_height * 100 + (t - n.start_time) * growth_rate
         IN [n EXCEPT !.height = h, !.y = n.initial_bottom - h]
    ELSE IF n.end_time # NoTime /\ n.end_time # 0
         THEN [n EXCEPT !.y = n.initial_bottom - n.height - (t - n.end_time) * note_speed]
         ELSE n

\* the purge test with the off-screen margin left out: a released note goes as
\* soon as its bottom edge passes the top of the window
Purged_at_top(n) == ~n.is_growing /\ n.y + n.height < 0

Purged(n) == ~n.is_growing /\ n.y + n.height < -100 * 100

RECURSIVE KeepNotes(_)
\* the removal loop of update_ddr_notes with notes_to_remove left empty
KeepNotes_all(ns) == ns

KeepNotes(ns) ==
    IF ns = <<>> THEN <<>>
    ELSE IF Purged(Head(ns)) THEN KeepNotes(Tail(ns))
         ELSE <<Head(ns)>> \o KeepNotes(Tail(ns))

update_ddr_notes(ns, t) == KeepNotes([k \in DOMAIN ns |-> UpdatedNote(ns[k], t)])

\* emergency_cleanup without "self.notes.clear()": the finished and growing notes
\* stay in the live collection
emergency_cleanup_store_keeping_notes(s) ==
    [s EXCEPT !.button_states = EmptyDict, !.active_notes = EmptyDict]

\* emergency_cleanup that also starts the statistics afresh
emergency_cleanup_store_resetting_total(s) ==
    [s EXCEPT !.button_states = EmptyDict, !.active_notes = EmptyDict, !.notes = <<>>,
              !.total_presses = 0]

\* emergency_cleanup, once the lock is held: the loop over active_notes runs
\* after active_notes.clear(), so it makes no call
emergency_cleanup_store(s) ==
    [s EXCEPT !.button_states = EmptyDict, !.active_notes = EmptyDict, !.notes = <<>>]

----------------------------------------------------------------------------
\* Device discovery

HatOnly(d) ==
    Device[d].numhats > 0 /\ ("nintendo" \in Device[d].name \/ "switch" \in Device[d].name)

\* pygame.joystick.Joystick(i) for i in range(get_count())
Enumerated(att) == [i \in 0 .. Len(att) - 1 |-> att[i + 1]]

\* initial_controller_scan: the first device becomes the active one
RECURSIVE InitialScan(_, _, _)
InitialScan(att, i, acc) ==
    IF i > Len(att) THEN acc
    ELSE LET d == att[i]
         IN InitialScan(att, i + 1,
               IF acc.active = NoDevice
               THEN [active |-> d, type |-> detect_controller_type(Device[d].name),
                     hat_only |-> HatOnly(d)]
               ELSE acc)

\* the loop of detect_controllers; cur is the device that was active before, if any
RECURSIVE Rescan(_, _, _, _)
\* the loop of detect_controllers without the detect_controller_type call of
\* its "elif self.active_controller is None" branch
RECURSIVE Rescan_keeping_type(_, _, _, _)
Rescan_keeping_type(att, i, cur, acc) ==
    IF i > Len(att) THEN acc
    ELSE LET d == att[i]
         IN Rescan_keeping_type(att, i + 1, cur,
               IF cur # NoDevice /\ Device[d].name = Device[cur].name
               THEN [acc EXCEPT !.active = d,
                                !.type = detect_controller_type(Device[d].name)]
               ELSE IF acc.active = NoDevice
               THEN [active |-> d, type |-> acc.type, hat_only |-> HatOnly(d)]
               ELSE acc)

Rescan(att, i, cur, acc) ==
    IF i > Len(att) THEN acc
    ELSE LET d == att[i]
         IN Rescan(att, i + 1, cur,
               IF cur # NoDevice /\ Device[d].name = Device[cur].name
               THEN [acc EXCEPT !.active = d,
                                !.type = detect_controller_type(Device[d].name)]
               ELSE IF acc.active = NoDevice
               THEN [active |-> d, type |-> detect_controller_type(Device[d].name),
                     hat_only |-> HatOnly(d)]
               ELSE acc)

\* a device that was unplugged raises pygame.error when read
Readable(d) == d # NoDevice /\ \E i \in DOMAIN attached : attached[i] = d

----------------------------------------------------------------------------
\* Initial state: StreamPadPygame.__init__

\* a call of detect_controller_type or get_button_mapping and what it returned
Lookup(fn, name, family, button, out) ==
    [fn |-> fn, name |-> name, family |-> family, button |-> button, out |-> out]

NoLookup == Lookup("", {}, "", 0, "")

\* orders: the orders in which devices can be plugged in at the start; focus:
\* whether the window can have the focus when the first input is made
InitIn(orders, focus) ==
    /\ now = 100
    /\ attached \in orders
    /\ raw_buttons = [d \in DeviceIds |-> {}]
    /\ raw_hat = [d \in DeviceIds |-> <<0, 0>>]
    /\ raw_axes = [d \in DeviceIds |-> NeutralAxes]
    /\ display_active \in focus
    /\ queue = <<>>
    /\ inputs = 0
    /\ raw_presses = 0
    /\ hat_moved = NoTime
    /\ controllers = Enumerated(attached)
    /\ LET scan == InitialScan(attached, 1,
                      [active |-> NoDevice, type |-> "GENERIC", hat_only |-> FALSE])
       IN /\ active_controller = scan.active
          /\ controller_type = scan.type
          /\ nintendo_hat_only = scan.hat_only
    /\ button_states = EmptyDict
    /\ last_button_states = EmptyDict
    /\ last_axis_states = EmptyDict
    /\ last_hat_state = <<0, 0>>
    /\ last_global_button_states = EmptyDict
    /\ last_global_hat_state = <<0, 0>>
    /\ last_hat_event_time = 0
    /\ button_press_count = [k \in {BUTTON_ORDER[j] : j \in DOMAIN BUTTON_ORDER} |-> 0]
    /\ total_presses = 0
    /\ notes = <<>>
    /\ active_notes = EmptyDict
    /\ next_nid = 1
    /\ global_input_lock = "free"
    /\ global_input_enabled = TRUE
    /\ join_started = NoTime
    /\ lookup = NoLookup
    /\ fg_pc = "tick"
    /\ events = <<>>
    /\ last_tick = 100
    /\ dt = 0
    /\ validation_timer = 0
    /\ bg_pc = "sleep"
    /\ emitted = <<>>

\* the window has the focus when the program starts
InitWith(orders) == InitIn(orders, {TRUE})

----------------------------------------------------------------------------
\* The world: physical inputs, the window's state, the clock

Ev(type, joy, button, value, key) ==
    [type |-> type, joy |-> joy, button |-> button, value |-> value, key |-> key]

Attached == {attached[i] : i \in DOMAIN attached}

EnvPress(d, i) ==
    /\ inputs < MaxInputs
    /\ d \in Attached /\ i \notin raw_buttons[d]
    /\ raw_buttons' = [raw_buttons EXCEPT ![d] = @ \cup {i}]
    /\ queue' = Append(queue, Ev("JOYBUTTONDOWN", d, i, <<0, 0>>, ""))
    /\ inputs' = inputs + 1
    /\ raw_presses' = raw_presses + 1
    /\ hat_moved' = hat_moved
    /\ emitted' = <<>>
    /\ UNCHANGED <<now, attached, raw_hat, raw_axes, display_active>>
    /\ UNCHANGED <<devs, store, snaps, global_input_lock, steady, fgloc, bg_pc>>

\* two buttons of one controller go down at once: two JOYBUTTONDOWN events
EnvPressPair(d, i, j) ==
    /\ inputs < MaxInputs
    /\ d \in Attached /\ i # j /\ i \notin raw_buttons[d] /\ j \notin raw_buttons[d]
    /\ raw_buttons' = [raw_buttons EXCEPT ![d] = @ \cup {i, j}]
    /\ queue' = queue \o <<Ev("JOYBUTTONDOWN", d, i, <<0, 0>>, ""),
                           Ev("JOYBUTTONDOWN", d, j, <<0, 0>>, "")>>
    /\ inputs' = inputs + 1
    /\ raw_presses' = raw_presses + 2
    /\ hat_moved' = hat_moved
    /\ emitted' = <<>>
    /\ UNCHANGED <<now, attached, raw_hat, raw_axes, display_active>>
    /\ UNCHANGED <<devs, store, snaps, global_input_lock, steady, fgloc, bg_pc>>

EnvRelease(d, i) ==
    /\ inputs < MaxInputs
    /\ d \in Attached /\ i \in raw_buttons[d]
    /\ raw_buttons' = [raw_buttons EXCEPT ![d] = @ \ {i}]
    /\ queue' = Append(queue, Ev("JOYBUTTONUP", d, i, <<0, 0>>, ""))
    /\ inputs' = inputs + 1
    /\ raw_presses' = raw_presses
    /\ hat_moved' = hat_moved
    /\ emitted' = <<>>
    /\ UNCHANGED <<now, attached, raw_hat, raw_axes, display_active>>
    /\ UNCHANGED <<devs, store, snaps, global_input_lock, steady, fgloc, bg_pc>>

EnvHat(d, v) ==
    /\ inputs < MaxInputs
    /\ d \in Attached /\ Device[d].numhats > 0 /\ v # raw_hat[d]
    /\ raw_hat' = [raw_hat EXCEPT ![d] = v]
    /\ queue' = Append(queue, Ev("JOYHATMOTION", d, 0, v, ""))
    /\ inputs' = inputs + 1
    /\ raw_presses' = raw_presses
    /\ hat_moved' = hat_moved
    /\ emitted' = <<>>
    /\ UNCHANGED <<now, attached, raw_buttons, raw_axes, display_active>>
    /\ UNCHANGED <<devs, store, snaps, global_input_lock, steady, fgloc, bg_pc>>

EnvKey(k) ==
    /\ inputs < MaxInputs
    /\ queue' = Append(queue, Ev("KEYDOWN", NoDevice, 0, <<0, 0>>, k))
    /\ inputs' = inputs + 1
    /\ raw_presses' = raw_presses
    /\ hat_moved' = hat_moved
    /\ emitted' = <<>>
    /\ UNCHANGED <<now, attached, raw_buttons, raw_hat, raw_axes, display_active>>
    /\ UNCHANGED <<devs, store, snaps, global_input_lock, steady, fgloc, bg_pc>>

\* the window is minimised / restored
EnvFocus ==
    /\ inputs < MaxInputs
    /\ display_active' = ~display_active
    /\ inputs' = inputs + 1
    /\ raw_presses' = raw_presses
    /\ hat_moved' = hat_moved
    /\ emitted' = <<>>
    /\ UNCHANGED <<now, attached, raw_buttons, raw_hat, raw_axes, queue>>
    /\ UNCHANGED <<devs, store, snaps, global_input_lock, steady, fgloc, bg_pc>>

\* a device is unplugged: no button-up events follow
EnvUnplug(d) ==
    /\ inputs < MaxInputs
    /\ d \in Attached
    /\ attached' = SelectSeq(attached, LAMBDA x : x # d)
    /\ raw_buttons' = [raw_buttons EXCEPT ![d] = {}]
    /\ raw_hat' = [raw_hat EXCEPT ![d] = <<0, 0>>]
    /\ raw_axes' = [raw_axes EXCEPT ![d] = NeutralAxes]
    /\ queue' = Append(queue, Ev("JOYDEVICEREMOVED", d, 0, <<0, 0>>, ""))
    /\ inputs' = inputs + 1
    /\ raw_presses' = raw_presses
    /\ hat_moved' = hat_moved
    /\ emitted' = <<>>
    /\ UNCHANGED <<now, display_active>>
    /\ UNCHANGED <<devs, store, snaps, global_input_lock, steady, fgloc, bg_pc>>

\* a stick or an analog trigger moves (axis values in tenths)
EnvAxis(d, a, v) ==
    /\ inputs < MaxInputs
    /\ d \in Attached /\ a < Device[d].numaxes /\ v # raw_axes[d][a]
    /\ raw_axes' = [raw_axes EXCEPT ![d][a] = v]
    /\ inputs' = inputs + 1
    /\ raw_presses' = raw_presses
    /\ hat_moved' = hat_moved
    /\ emitted' = <<>>
    /\ UNCHANGED <<now, attached, raw_buttons, raw_hat, display_active, queue>>
    /\ UNCHANGED <<devs, store, snaps, global_input_lock, steady, fgloc, bg_pc>>

\* time passes
Tick(step) ==
    /\ inputs < MaxInputs
    /\ now' = now + step
    /\ inputs' = inputs + 1
    /\ raw_presses' = raw_presses
    /\ hat_moved' = hat_moved
    /\ emitted' = <<>>
    /\ UNCHANGED <<attached, raw_buttons, raw_hat, raw_axes, display_active, queue>>
    /\ UNCHANGED <<devs, store, snaps, global_input_lock, steady, fgloc, bg_pc>>

\* time passes while the world does nothing else: clock.tick(FPS) and
\* time.sleep(1/120) return later
Sleep(step) ==
    /\ now + step <= MaxNow
    /\ now' = now + step
    /\ emitted' = <<>>
    /\ UNCHANGED <<attached, raw_buttons, raw_hat, raw_axes, display_active, queue, inputs,
                   raw_presses, hat_moved>>
    /\ UNCHANGED <<devs, store, snaps, global_input_lock, steady, fgloc, bg_pc>>

----------------------------------------------------------------------------
\* The foreground thread: run() and handle_events()

\* clock.tick(FPS) returns, pygame.event.get() fetches the queued events.  The
\* time clock.tick sleeps is time the world lets pass (Tick); dt is whatever has
\* passed since the previous frame.
FgTick ==
    /\ fg_pc = "tick"
    /\ dt' = now - last_tick
    /\ last_tick' = now
    /\ events' = queue
    /\ queue' = <<>>
    /\ fg_pc' = "events"
    /\ emitted' = <<>>
    /\ UNCHANGED <<now, attached, raw_buttons, raw_hat, raw_axes, display_active, inputs,
                   raw_presses, hat_moved>>
    /\ UNCHANGED <<devs, store, snaps, global_input_lock, steady,
                   validation_timer, bg_pc>>

\* the lock is taken by another thread: acquire() does not return
LockBusy == global_input_lock # "free"

Blocks(calls) == calls # <<>> /\ LockBusy

\* the foreground thread makes these calls while handling the first event; a call
\* that finds the lock taken blocks the thread where it is
FgDo(calls) ==
    IF Blocks(calls)
    THEN /\ fg_pc' = "blocked"
         /\ emitted' = <<>>
         /\ UNCHANGED <<events, store>>
    ELSE /\ fg_pc' = fg_pc
         /\ events' = Tail(events)
         /\ SetStore(ApplyCalls(Store, calls, now, "fg"))

HeadIs(type) == fg_pc = "events" /\ events # <<>> /\ Head(events).type = type

ForActive(e) == active_controller # NoDevice /\ e.joy = active_controller

FgJoyButtonDown ==
    /\ HeadIs("JOYBUTTONDOWN")
    /\ LET e == Head(events)
           button_id == IF ForActive(e)
                        THEN get_button_mapping(controller_type, e.button) ELSE None
       IN FgDo(IF button_id # None THEN << <<"press", button_id>> >> ELSE <<>>)
    /\ UNCHANGED <<world, devs, snaps, global_input_lock, steady,
                   last_tick, dt, validation_timer, bg_pc>>

FgJoyButtonUp ==
    /\ HeadIs("JOYBUTTONUP")
    /\ LET e == Head(events)
           button_id == IF ForActive(e)
                        THEN get_button_mapping(controller_type, e.button) ELSE None
       IN FgDo(IF button_id # None THEN << <<"release", button_id>> >> ELSE <<>>)
    /\ UNCHANGED <<world, devs, snaps, global_input_lock, steady,
                   last_tick, dt, validation_timer, bg_pc>>

\* the d-pad ids a hat vector asks for
Desired(v) == ("14" :> (v[1] < 0)) @@ ("15" :> (v[1] > 0)) @@
              ("12" :> (v[2] > 0)) @@ ("13" :> (v[2] < 0))

HatIds == <<"14", "15", "12", "13">>

\* for bid in ['14', '15', '12', '13']: press on a rising, release on a falling edge
RECURSIVE HatCallsFrom(_, _, _)
HatCallsFrom(k, prev, cur) ==
    IF k > Len(HatIds) THEN <<>>
    ELSE LET bid == HatIds[k]
             desired == Desired(cur)[bid]
             previous == Desired(prev)[bid]
         IN (IF desired /\ ~previous THEN << <<"press", bid>> >> ELSE <<>>)
            \o (IF ~desired /\ previous THEN << <<"release", bid>> >> ELSE <<>>)
            \o HatCallsFrom(k + 1, prev, cur)

HatCalls(prev, cur) == HatCallsFrom(1, prev, cur)

FgJoyHatMotion ==
    /\ HeadIs("JOYHATMOTION")
    /\ last_hat_event_time' = now
    /\ hat_moved' = now
    /\ LET e == Head(events)
           calls == IF ForActive(e) THEN HatCalls(last_hat_state, e.value) ELSE <<>>
       IN /\ FgDo(calls)
          /\ last_hat_state' = IF ForActive(e) /\ ~Blocks(calls) THEN e.value
                               ELSE last_hat_state
    /\ UNCHANGED <<now, attached, raw_buttons, raw_hat, raw_axes, display_active, queue,
                   inputs, raw_presses>>
    /\ UNCHANGED <<devs, last_button_states, last_axis_states,
                   last_global_button_states, last_global_hat_state,
                   global_input_lock, steady,
                   last_tick, dt, validation_timer, bg_pc>>

\* emergency_cleanup, once the lock is held
CleanupSnaps ==
    /\ last_button_states' = EmptyDict
    /\ last_axis_states' = EmptyDict
    /\ last_global_button_states' = EmptyDict
    /\ last_hat_state' = <<0, 0>>
    /\ last_global_hat_state' = <<0, 0>>
    /\ last_hat_event_time' = 0

emergency_cleanup ==
    /\ SetStore(emergency_cleanup_store(Store))
    /\ CleanupSnaps

KeyIs(k) == HeadIs("KEYDOWN") /\ Head(events).key = k

FgKeyEscape ==
    /\ KeyIs("ESCAPE")
    /\ IF LockBusy
       THEN fg_pc' = "blocked" /\ emitted' = <<>> /\ UNCHANGED <<events, store, snaps>>
       ELSE fg_pc' = fg_pc /\ events' = Tail(events) /\ emergency_cleanup
    /\ UNCHANGED <<world, devs, global_input_lock, steady,
                   last_tick, dt, validation_timer, bg_pc>>

\* K_r: detect_controllers
FgKeyRefresh ==
    /\ KeyIs("r")
    /\ IF LockBusy
       THEN /\ fg_pc' = "blocked" /\ emitted' = <<>>
            /\ UNCHANGED <<events, store, snaps, devs>>
       ELSE /\ fg_pc' = fg_pc /\ events' = Tail(events) /\ emergency_cleanup
            /\ controllers' = Enumerated(attached)
            /\ LET scan == Rescan(attached, 1, active_controller,
                              [active |-> NoDevice, type |-> controller_type,
                               hat_only |-> nintendo_hat_only])
               IN /\ active_controller' = scan.active
                  /\ controller_type' = scan.type
                  /\ nintendo_hat_only' = scan.hat_only
    /\ UNCHANGED <<world, global_input_lock, steady,
                   last_tick, dt, validation_timer, bg_pc>>

Min(S) == CHOOSE x \in S : \A y \in S : x <= y

\* the index after idx in sorted(controllers.keys()), cyclically
NextIndex(idx) ==
    LET keys == DOMAIN controllers
    IN IF \E k \in keys : k > idx THEN Min({k \in keys : k > idx}) ELSE Min(keys)

\* K_TAB: switch_active_controller
FgKeyTab ==
    /\ KeyIs("TAB")
    /\ IF Cardinality(DOMAIN controllers) <= 1
       THEN /\ fg_pc' = fg_pc /\ events' = Tail(events) /\ emitted' = <<>>
            /\ UNCHANGED <<devs, store, snaps>>
       ELSE LET found == {k \in DOMAIN controllers : controllers[k] = active_controller}
                next_idx == IF found # {} THEN NextIndex(Min(found))
                            ELSE Min(DOMAIN controllers)
            IN /\ active_controller' = controllers[next_idx]
               /\ controller_type' = detect_controller_type(Device[controllers[next_idx]].name)
               /\ UNCHANGED <<controllers, nintendo_hat_only>>
               /\ IF LockBusy
                  THEN fg_pc' = "blocked" /\ emitted' = <<>> /\ UNCHANGED <<events, store, snaps>>
                  ELSE fg_pc' = fg_pc /\ events' = Tail(events) /\ emergency_cleanup
    /\ UNCHANGED <<world, global_input_lock, steady,
                   last_tick, dt, validation_timer, bg_pc>>

\* validate_button_states.  For the first id that is marked pressed the code calls
\* self.get_button_mapping() without its argument, which raises TypeError before
\* anything was appended to stuck_buttons; with no id pressed nothing is appended
\* either.
ValidateRaises == \E id \in DOMAIN button_states : button_states[id]

stuck_buttons == <<>>

\* the handler of the exception: "if stuck_buttons: self.emergency_cleanup()"
ValidateFallsBack == ValidateRaises /\ stuck_buttons # <<>>

\* validate_button_states returns before taking the lock
ValidateSkips == ~Readable(active_controller)

validate_button_states ==
    IF ValidateFallsBack THEN emergency_cleanup
    ELSE emitted' = <<>> /\ UNCHANGED <<store, snaps>>

\* K_v: manual validation
FgKeyValidate ==
    /\ KeyIs("v")
    /\ IF ValidateSkips
       THEN fg_pc' = fg_pc /\ events' = Tail(events) /\ emitted' = <<>>
            /\ UNCHANGED <<store, snaps>>
       ELSE IF LockBusy
       THEN fg_pc' = "blocked" /\ emitted' = <<>> /\ UNCHANGED <<events, store, snaps>>
       ELSE fg_pc' = fg_pc /\ events' = Tail(events) /\ validate_button_states
    /\ UNCHANGED <<world, devs, global_input_lock, steady,
                   last_tick, dt, validation_timer, bg_pc>>

\* JOYDEVICEREMOVED: the device leaves self.controllers; no cleanup is made
FgDeviceRemoved ==
    /\ HeadIs("JOYDEVICEREMOVED")
    /\ LET e == Head(events)
           gone(d) == d = e.joy \/ ~Readable(d)
           keep == {k \in DOMAIN controllers : ~gone(controllers[k])}
           left == IF keep = {} THEN EmptyDict ELSE [k \in keep |-> controllers[k]]
           act == IF active_controller # NoDevice /\ gone(active_controller)
                  THEN NoDevice ELSE active_controller
       IN /\ controllers' = left
          /\ IF act = NoDevice /\ keep # {}
             THEN /\ active_controller' = left[Min(keep)]
                  /\ controller_type' = detect_controller_type(Device[left[Min(keep)]].name)
             ELSE /\ active_controller' = act
                  /\ controller_type' = controller_type
          /\ nintendo_hat_only' = nintendo_hat_only
    /\ fg_pc' = fg_pc /\ events' = Tail(events) /\ emitted' = <<>>
    /\ UNCHANGED <<world, store, snaps, global_input_lock, steady,
                   last_tick, dt, validation_timer, bg_pc>>

----------------------------------------------------------------------------
\* Axes as virtual buttons (axis values in tenths: the deadzone 0.5 is 5)

deadzone == 5
threshold == 5

\* (key, pressed, id) of handle_joystick_axes / check_global_joystick_axes
StickDirections(ax) ==
    << <<"left", ax[0] < -deadzone, "14">>, <<"right", ax[0] > deadzone, "15">>,
       <<"up", ax[1] < -deadzone, "12">>, <<"down", ax[1] > deadzone, "13">> >>

\* the trigger test with a value of exactly 0.5 counted as pulled
TriggerDirections_from_threshold(ax, numaxes) ==
    (IF numaxes >= 5 THEN << <<"zl_axis", ax[4] >= threshold, "6">> >> ELSE <<>>)
    \o (IF numaxes >= 6 THEN << <<"zr_axis", ax[5] >= threshold, "7">> >> ELSE <<>>)

\* (key, pressed, id) of handle_trigger_axes / check_global_trigger_axes
TriggerDirections(ax, numaxes) ==
    (IF numaxes >= 5 THEN << <<"zl_axis", ax[4] > threshold, "6">> >> ELSE <<>>)
    \o (IF numaxes >= 6 THEN << <<"zr_axis", ax[5] > threshold, "7">> >> ELSE <<>>)

\* the calls made for the directions whose state differs from last_axis_states
RECURSIVE AxisCalls(_, _)
AxisCalls(dirs, las) ==
    IF dirs = <<>> THEN <<>>
    ELSE LET x == Head(dirs)
         IN (IF x[2] # Get(las, x[1], FALSE)
             THEN << <<IF x[2] THEN "press" ELSE "release", x[3]>> >> ELSE <<>>)
            \o AxisCalls(Tail(dirs), las)

\* last_axis_states after those calls
RECURSIVE AxisSnap(_, _)
AxisSnap(dirs, las) ==
    IF dirs = <<>> THEN las
    ELSE LET x == Head(dirs)
         IN AxisSnap(Tail(dirs),
                     IF x[2] # Get(las, x[1], FALSE) THEN Put(las, x[1], x[2]) ELSE las)

\* handle_joystick_axes without the "if self.controller_type ==
\* ControllerType.SNES_SWITCH: return" test
FgStick_for_every_family ==
    IF active_controller = NoDevice
       \/ ~Readable(active_controller) \/ Device[active_controller].numaxes < 2
    THEN <<>>
    ELSE StickDirections(raw_axes[active_controller])

\* the directions handle_joystick_axes looks at
FgStick ==
    IF active_controller = NoDevice \/ controller_type = "SNES_SWITCH"
       \/ ~Readable(active_controller) \/ Device[active_controller].numaxes < 2
    THEN <<>>
    ELSE StickDirections(raw_axes[active_controller])

\* the directions handle_trigger_axes looks at
FgTrigger ==
    IF ~Readable(active_controller) \/ Device[active_controller].numaxes <= 2
    THEN <<>>
    ELSE TriggerDirections(raw_axes[active_controller], Device[active_controller].numaxes)

\* the end of handle_events: handle_joystick_axes, then handle_trigger_axes
FgAxes ==
    /\ fg_pc = "events" /\ events = <<>>
    /\ LET dirs == IF active_controller # NoDevice THEN FgStick \o FgTrigger ELSE <<>>
           calls == AxisCalls(dirs, last_axis_states)
       IN IF Blocks(calls)
          THEN /\ fg_pc' = "blocked" /\ emitted' = <<>>
               /\ UNCHANGED <<store, last_axis_states>>
          ELSE /\ fg_pc' = "update"
               /\ SetStore(ApplyCalls(Store, calls, now, "fg"))
               /\ last_axis_states' = AxisSnap(dirs, last_axis_states)
    /\ UNCHANGED <<world, devs, last_button_states, last_hat_state,
                   last_global_button_states, last_global_hat_state, last_hat_event_time,
                   global_input_lock, steady,
                   events, last_tick, dt, validation_timer, bg_pc>>

\* the rest of the loop body of run(): update_ddr_notes, then the validation
\* timer; the loop goes on at position then
RestOfFrame(then) ==
    LET due == validation_timer + dt >= validation_interval_ms
        moved == [Store EXCEPT !.notes = update_ddr_notes(notes, now)]
    IN IF ~due
       THEN /\ fg_pc' = then
            /\ validation_timer' = validation_timer + dt
            /\ SetStore(moved)
            /\ UNCHANGED snaps
       ELSE IF ValidateSkips
       THEN /\ fg_pc' = then
            /\ validation_timer' = 0
            /\ SetStore(moved)
            /\ UNCHANGED snaps
       ELSE IF LockBusy
       THEN /\ fg_pc' = "blocked"
            /\ validation_timer' = validation_timer + dt
            /\ SetStore(moved)
            /\ UNCHANGED snaps
       ELSE /\ fg_pc' = then
            /\ validation_timer' = 0
            /\ IF ValidateFallsBack
               THEN emergency_cleanup
               ELSE SetStore(moved) /\ UNCHANGED snaps

\* the loop body of run() after handle_events returned True
FgUpdate ==
    /\ fg_pc = "update"
    /\ RestOfFrame("tick")
    /\ UNCHANGED <<world, devs, global_input_lock, steady,
                   events, last_tick, dt, bg_pc>>

----------------------------------------------------------------------------
\* Shutdown: the window is closed, run() leaves its loop and calls cleanup()

join_timeout_ms == 1000

\* the user closes the window
EnvQuit ==
    /\ inputs < MaxInputs
    /\ queue' = Append(queue, Ev("QUIT", NoDevice, 0, <<0, 0>>, ""))
    /\ inputs' = inputs + 1
    /\ raw_presses' = raw_presses
    /\ hat_moved' = hat_moved
    /\ emitted' = <<>>
    /\ UNCHANGED <<now, attached, raw_buttons, raw_hat, raw_axes, display_active>>
    /\ UNCHANGED <<devs, store, snaps, global_input_lock, steady, fgloc, bg_pc>>

\* pygame.QUIT: handle_events returns False at once, the events behind it and the
\* axes are not looked at
FgQuit ==
    /\ HeadIs("QUIT")
    /\ fg_pc' = "last_frame"
    /\ events' = <<>>
    /\ emitted' = <<>>
    /\ UNCHANGED <<world, devs, store, snaps, global_input_lock, steady,
                   last_tick, dt, validation_timer, bg_pc>>

\* the loop body of run() after handle_events returned False: the loop ends
FgLastFrame ==
    /\ fg_pc = "last_frame"
    /\ RestOfFrame("cleanup")
    /\ UNCHANGED <<world, devs, global_input_lock, steady,
                   events, last_tick, dt, bg_pc>>

\* cleanup with "self.global_input_thread.join()": no timeout
FgJoin_without_timeout ==
    /\ fg_pc = "join"
    /\ bg_pc = "exited"
    /\ fg_pc' = "done"
    /\ emitted' = <<>>
    /\ UNCHANGED <<world, devs, store, snaps, global_input_lock, steady,
                   events, last_tick, dt, validation_timer, bg_pc>>

\* cleanup up to the join: the flag goes down; a thread that has ended is not
\* waited for
cleanup ==
    /\ fg_pc = "cleanup"
    /\ global_input_enabled' = FALSE
    /\ join_started' = now
    /\ fg_pc' = IF bg_pc # "exited" THEN "join" ELSE "done"
    /\ emitted' = <<>>
    /\ UNCHANGED <<world, devs, store, snaps, global_input_lock, lookup,
                   events, last_tick, dt, validation_timer, bg_pc>>

\* join(timeout=1.0) returns: the thread has ended, or a second has passed
FgJoin ==
    /\ fg_pc = "join"
    /\ bg_pc = "exited" \/ now - join_started >= join_timeout_ms
    /\ fg_pc' = "done"
    /\ emitted' = <<>>
    /\ UNCHANGED <<world, devs, store, snaps, global_input_lock, steady,
                   events, last_tick, dt, validation_timer, bg_pc>>

----------------------------------------------------------------------------
\* The background thread: global_input_monitor_loop

_hat_debounce_active == now - last_hat_event_time <= hat_button_debounce_ms

\* the button loop of check_global_controller_input from index i on, with the
\* snapshot lgbs so far: it ends at range's end, or inside "with
\* self.global_input_lock:" where on_button_press / on_button_release takes the
\* same lock again
RECURSIVE BgButtonLoop(_, _, _, _)
BgButtonLoop(i, lgbs, suppress_buttons, d) ==
    IF i >= Device[d].numbuttons THEN [snap |-> lgbs, stuck |-> FALSE]
    ELSE LET is_pressed == i \in raw_buttons[d]
             was_pressed == Get(lgbs, i, FALSE)
             button_id == get_button_mapping(controller_type, i)
         IN IF suppress_buttons \/ (nintendo_hat_only /\ i \in {12, 13, 14, 15})
            THEN BgButtonLoop(i + 1, Put(lgbs, i, is_pressed), suppress_buttons, d)
            ELSE IF is_pressed # was_pressed /\ button_id # None
            THEN [snap |-> lgbs, stuck |-> TRUE]
            ELSE BgButtonLoop(i + 1, Put(lgbs, i, is_pressed), suppress_buttons, d)

\* check_global_controller_input without the "if pygame.display.get_active():
\* return" test
BgPollButtons_without_focus_test ==
    /\ bg_pc = "sleep" /\ global_input_enabled
    /\ IF ~Readable(active_controller)
       THEN /\ bg_pc' = "sleep"
            /\ UNCHANGED <<last_global_button_states, global_input_lock>>
       ELSE LET r == BgButtonLoop(0, last_global_button_states,
                                  nintendo_hat_only /\ _hat_debounce_active,
                                  active_controller)
            IN /\ last_global_button_states' = r.snap
               /\ IF r.stuck
                  THEN bg_pc' = "blocked" /\ global_input_lock' = "bg"
                  ELSE bg_pc' = "hat" /\ global_input_lock' = global_input_lock
    /\ emitted' = <<>>
    /\ UNCHANGED <<world, devs, store, last_button_states, last_axis_states, last_hat_state,
                   last_global_hat_state, last_hat_event_time, steady, fgloc>>

\* one iteration starts: check_global_controller_input up to the button loop's end
BgPollButtons ==
    /\ bg_pc = "sleep" /\ global_input_enabled
    /\ IF ~Readable(active_controller) \/ display_active
       THEN /\ bg_pc' = "sleep"
            /\ UNCHANGED <<last_global_button_states, global_input_lock>>
       ELSE LET r == BgButtonLoop(0, last_global_button_states,
                                  nintendo_hat_only /\ _hat_debounce_active,
                                  active_controller)
            IN /\ last_global_button_states' = r.snap
               /\ IF r.stuck
                  THEN bg_pc' = "blocked" /\ global_input_lock' = "bg"
                  ELSE bg_pc' = "hat" /\ global_input_lock' = global_input_lock
    /\ emitted' = <<>>
    /\ UNCHANGED <<world, devs, store, last_button_states, last_axis_states, last_hat_state,
                   last_global_hat_state, last_hat_event_time, steady, fgloc>>

\* check_global_hat
BgPollHat ==
    /\ bg_pc = "hat"
    /\ IF ~Readable(active_controller) \/ Device[active_controller].numhats <= 0
       THEN /\ bg_pc' = "stick"
            /\ UNCHANGED <<last_hat_state, last_global_hat_state, last_hat_event_time,
                           global_input_lock, hat_moved>>
       ELSE LET v == raw_hat[active_controller]
            IN IF HatCalls(last_hat_state, v) # <<>>
               THEN /\ bg_pc' = "blocked" /\ global_input_lock' = "bg"
                    /\ hat_moved' = now
                    /\ UNCHANGED <<last_hat_state, last_global_hat_state, last_hat_event_time>>
               ELSE /\ bg_pc' = "stick" /\ global_input_lock' = global_input_lock
                    /\ last_hat_state' = v
                    /\ last_global_hat_state' = v
                    /\ last_hat_event_time' = now
                    /\ hat_moved' = hat_moved
    /\ emitted' = <<>>
    /\ UNCHANGED <<now, attached, raw_buttons, raw_hat, raw_axes, display_active, queue,
                   inputs, raw_presses>>
    /\ UNCHANGED <<devs, store, last_button_states, last_axis_states,
                   last_global_button_states, steady, fgloc>>

\* check_global_joystick_axes, skipped for SNES_SWITCH
BgPollStick ==
    /\ bg_pc = "stick"
    /\ LET dirs == IF controller_type = "SNES_SWITCH" \/ ~Readable(active_controller)
                      \/ Device[active_controller].numaxes < 2
                   THEN <<>>
                   ELSE StickDirections(raw_axes[active_controller])
       IN IF AxisCalls(dirs, last_axis_states) # <<>>
          THEN bg_pc' = "blocked" /\ global_input_lock' = "bg"
          ELSE bg_pc' = "trigger" /\ global_input_lock' = global_input_lock
    /\ emitted' = <<>>
    /\ UNCHANGED <<world, devs, store, snaps, steady, fgloc>>

\* check_global_trigger_axes: the calls are made without the outer "with"
BgPollTrigger ==
    /\ bg_pc = "trigger"
    /\ LET dirs == IF ~Readable(active_controller) \/ Device[active_controller].numaxes <= 2
                   THEN <<>>
                   ELSE TriggerDirections(raw_axes[active_controller],
                                          Device[active_controller].numaxes)
           calls == AxisCalls(dirs, last_axis_states)
       IN /\ SetStore(ApplyCalls(Store, calls, now, "bg"))
          /\ last_axis_states' = AxisSnap(dirs, last_axis_states)
    /\ bg_pc' = "sleep"
    /\ UNCHANGED <<world, devs, last_button_states, last_hat_state,
                   last_global_button_states, last_global_hat_state, last_hat_event_time,
                   global_input_lock, steady, fgloc>>

\* "while self.global_input_enabled:" finds the flag down: the thread ends
BgExit ==
    /\ bg_pc = "sleep" /\ ~global_input_enabled
    /\ bg_pc' = "exited"
    /\ emitted' = <<>>
    /\ UNCHANGED <<world, devs, store, snaps, global_input_lock, steady, fgloc>>

----------------------------------------------------------------------------
\* The specifications

Background ==
    \/ BgPollButtons
    \/ BgPollHat
    \/ BgPollStick
    \/ BgPollTrigger

\* the frame loop with the button, hat and ESC handlers
FgCore ==
    \/ FgTick
    \/ FgJoyButtonDown
    \/ FgJoyButtonUp
    \/ FgJoyHatMotion
    \/ FgKeyEscape
    \/ FgAxes
    \/ FgUpdate

\* Spec: one controller (either device), its buttons 7 and 12, the hat moving left
\* and up, the left trigger, ESC, and the window being minimised and restored
World ==
    \/ \E d \in DeviceIds, i \in {7, 12} : EnvPress(d, i)
    \/ \E d \in DeviceIds, i \in {7, 12} : EnvRelease(d, i)
    \/ \E d \in DeviceIds, v \in {<<0, 0>>, <<-1, 0>>, <<0, 1>>} : EnvHat(d, v)
    \/ \E d \in DeviceIds, v \in {0, 10} : EnvAxis(d, 4, v)
    \/ EnvKey("ESCAPE")
    \/ EnvFocus
    \/ \E step \in {10, 40} : Tick(step)

Next == World \/ FgCore \/ Background

Init == InitWith({<<1>>, <<2>>})

Spec == Init /\ [][Next]_vars

\* SpecRecovery: the recovery paths of the foreground loop.  One or two
\* controllers, button 0, the keys v / r / TAB, unplugging, and two seconds of
\* time at once.  The window keeps the focus, so every poll of the background
\* thread returns at once and is left out.
WorldRecovery ==
    \/ \E d \in DeviceIds : EnvPress(d, 0)
    \/ \E d \in DeviceIds : EnvRelease(d, 0)
    \/ \E k \in {"v", "r", "TAB"} : EnvKey(k)
    \/ \E d \in DeviceIds : EnvUnplug(d)
    \/ Tick(validation_interval_ms)

FgRecovery ==
    \/ FgTick
    \/ FgJoyButtonDown
    \/ FgJoyButtonUp
    \/ FgKeyValidate
    \/ FgKeyRefresh
    \/ FgKeyTab
    \/ FgDeviceRemoved
    \/ FgAxes
    \/ FgUpdate

NextRecovery == WorldRecovery \/ FgRecovery

InitRecovery == InitWith({<<1>>, <<1, 2>>})

SpecRecovery == InitRecovery /\ [][NextRecovery]_vars

\* SpecNotes: the life of a note.  One controller, its button 0 (id "1", which
\* has a lane), and time passing in steps that put a released note just short of
\* and just past the purge line: (495 + 100) px at 0.15 px/ms is 3966.67 ms.

WorldNotes ==
    \/ EnvPress(2, 0)
    \/ EnvRelease(2, 0)
    \/ \E step \in {3966, 3967} : Tick(step)

FgNotes == FgTick \/ FgJoyButtonDown \/ FgJoyButtonUp \/ FgAxes \/ FgUpdate

NextNotes == WorldNotes \/ FgNotes

InitNotes == InitWith({<<2>>})

SpecNotes == InitNotes /\ [][NextNotes]_vars

\* SpecLookup: the two lookup functions on their own.  detect_controller_type is
\* applied to every set of keywords a device name can contain, get_button_mapping
\* to every family and every raw index up to MaxButton.
MaxButton == 16

Keywords == {"pro controller", "switch pro", "nintendo", "switch", "snes",
             "ps4", "dualshock", "ps5", "dualsense", "xbox", "microsoft"}

Classify(name) ==
    /\ lookup' = Lookup("detect_controller_type", name, "", 0, detect_controller_type(name))
    /\ UNCHANGED <<world, devs, store, snaps, global_input_lock, global_input_enabled,
                   join_started,
                   fgloc, bg_pc, emitted>>

MapButton(family, pygame_button) ==
    /\ lookup' = Lookup("get_button_mapping", {}, family, pygame_button,
                        get_button_mapping(family, pygame_button))
    /\ UNCHANGED <<world, devs, store, snaps, global_input_lock, global_input_enabled,
                   join_started,
                   fgloc, bg_pc, emitted>>

NextLookup ==
    \/ \E name \in SUBSET Keywords : Classify(name)
    \/ \E family \in Families, i \in 0 .. MaxButton : MapButton(family, i)

InitLookup == InitWith({<<1>>})

SpecLookup == InitLookup /\ [][NextLookup]_vars

\* ---------------------------------------------------------------------------
\* Properties of the emission functions
\* ---------------------------------------------------------------------------

\* SpecDebounce: the debounce window of a hat-only device.  The Switch Pro
\* controller, its hat moving left and back, its button 7 (id "10", not a d-pad
\* id), and time passing in steps short of and past the 30 ms window.  The
\* window has lost the focus before the first input, so the poller runs.
WorldDebounce ==
    \/ \E v \in {<<0, 0>>, <<-1, 0>>} : EnvHat(1, v)
    \/ EnvPress(1, 7)
    \/ EnvRelease(1, 7)
    \/ \E step \in {10, 40} : Tick(step)

FgDebounce ==
    \/ FgTick
    \/ FgJoyButtonDown
    \/ FgJoyButtonUp
    \/ FgJoyHatMotion
    \/ FgAxes
    \/ FgUpdate

NextDebounce == WorldDebounce \/ FgDebounce \/ Background

InitDebounce == InitIn({<<1>>}, {FALSE})

SpecDebounce == InitDebounce /\ [][NextDebounce]_vars

\* SpecTravel: a note growing and travelling.  One controller, its button 0 (id
\* "1"), and the clock advancing by half a second or a second between frames: a
\* note held for 500 ms is 8 + 0.08 * 500 = 48 px high.
WorldTravel ==
    \/ EnvPress(2, 0)
    \/ EnvRelease(2, 0)
    \/ \E step \in {500, 1000} : Sleep(step)

NextTravel == WorldTravel \/ FgNotes

SpecTravel == InitNotes /\ [][NextTravel]_vars

\* SpecAxes: the left stick as a d-pad.  One controller, the Xbox one or the SNES
\* one for Switch, whose axes 0 and 1 move between full deflection, the edge of
\* the deadzone and rest; the window has the focus or has lost it before the
\* first input.
WorldAxes ==
    \E d \in {2, 3}, a \in {0, 1}, v \in {-10, -5, 0, 5, 10} : EnvAxis(d, a, v)

FgAxesOnly == FgTick \/ FgAxes \/ FgUpdate

NextAxes == WorldAxes \/ FgAxesOnly \/ Background

InitAxes == InitIn({<<2>>, <<3>>}, {TRUE, FALSE})

SpecAxes == InitAxes /\ [][NextAxes]_vars

\* SpecTriggers: the analog triggers.  One controller with 6, 4 or 5 axes whose
\* axes 2 to 5 (as far as it has them) move between rest, the threshold 0.5 and
\* full deflection; the window has the focus or has lost it before the first
\* input.
WorldTriggers ==
    \E d \in {2, 4, 5}, a \in 2 .. 5, v \in {0, 5, 10} : EnvAxis(d, a, v)

NextTriggers == WorldTriggers \/ FgAxesOnly \/ Background

InitTriggers == InitIn({<<2>>, <<4>>, <<5>>}, {TRUE, FALSE})

SpecTriggers == InitTriggers /\ [][NextTriggers]_vars

\* SpecMiss: raw indices without a mapping.  The Switch Pro controller, whose
\* table lists neither index 5 nor index 15, with its buttons 5 and 7; the
\* window has the focus or has lost it before the first input.
WorldMiss ==
    \/ \E i \in {5, 7} : EnvPress(1, i)
    \/ \E i \in {5, 7} : EnvRelease(1, i)

FgMiss == FgTick \/ FgJoyButtonDown \/ FgJoyButtonUp \/ FgAxes \/ FgUpdate

NextMiss == WorldMiss \/ FgMiss \/ Background

InitMiss == InitIn({<<1>>}, {TRUE, FALSE})

SpecMiss == InitMiss /\ [][NextMiss]_vars

\* SpecShutdown: closing the window.  One controller and its button 0, which
\* the poller finds when the window has lost the focus, the window being
\* closed, and time passing by half a second or a second.
WorldShutdown ==
    \/ EnvQuit
    \/ EnvPress(2, 0)
    \/ EnvRelease(2, 0)
    \/ \E step \in {500, 1000} : Tick(step)

FgShutdown ==
    \/ FgTick
    \/ FgJoyButtonDown
    \/ FgJoyButtonUp
    \/ FgQuit
    \/ FgAxes
    \/ FgUpdate
    \/ FgLastFrame
    \/ cleanup
    \/ FgJoin

NextShutdown == WorldShutdown \/ FgShutdown \/ Background \/ BgExit

InitShutdown == InitIn({<<2>>}, {TRUE, FALSE})

SpecShutdown == InitShutdown /\ [][NextShutdown]_vars

\* SpecCounters: the statistics.  Two controllers, button 0 of either, the keys
\* that clean up, refresh and switch, and the 3967 ms that purge a released note;
\* the foreground thread alone.
WorldCounters ==
    \/ \E d \in {1, 2} : EnvPress(d, 0) \/ EnvRelease(d, 0)
    \/ \E k \in {"ESCAPE", "r", "TAB"} : EnvKey(k)
    \/ Tick(3967)

FgCounters ==
    \/ FgTick
    \/ FgJoyButtonDown
    \/ FgJoyButtonUp
    \/ FgKeyEscape
    \/ FgKeyRefresh
    \/ FgKeyTab
    \/ FgAxes
    \/ FgUpdate

NextCounters == WorldCounters \/ FgCounters

InitCounters == InitWith({<<1, 2>>})

SpecCounters == InitCounters /\ [][NextCounters]_vars

\* SpecAlias: several physical sources of one logical id.  The Xbox controller,
\* whose raw buttons 6 and 8 both map to "8" and whose hat and left stick both
\* give the d-pad id "14"; the foreground thread alone.
WorldAlias ==
    \/ EnvPressPair(2, 6, 8)
    \/ \E i \in {6, 8} : EnvPress(2, i) \/ EnvRelease(2, i)
    \/ \E v \in {<<0, 0>>, <<-1, 0>>} : EnvHat(2, v)
    \/ \E v \in {-10, 0} : EnvAxis(2, 0, v)

FgAlias ==
    \/ FgTick
    \/ FgJoyButtonDown
    \/ FgJoyButtonUp
    \/ FgJoyHatMotion
    \/ FgAxes
    \/ FgUpdate

NextAlias == WorldAlias \/ FgAlias

InitAlias == InitWith({<<2>>})

SpecAlias == InitAlias /\ [][NextAlias]_vars

\* SpecForeign: a second controller next to the active one.  Button 7 and the
\* hat of either controller, and frames 10 ms apart; the foreground thread alone.
WorldForeign ==
    \/ \E d \in {1, 2} : EnvPress(d, 7) \/ EnvRelease(d, 7)
    \/ \E d \in {1, 2}, v \in {<<0, 0>>, <<-1, 0>>} : EnvHat(d, v)
    \/ Tick(10)

FgForeign ==
    \/ FgTick
    \/ FgJoyButtonDown
    \/ FgJoyButtonUp
    \/ FgJoyHatMotion
    \/ FgAxes
    \/ FgUpdate

NextForeign == WorldForeign \/ FgForeign

InitForeign == InitWith({<<1, 2>>})

SpecForeign == InitForeign /\ [][NextForeign]_vars

LogicalIds == {"0", "1", "2", "3", "4", "5", "6", "7", "8", "9",
               "10", "11", "12", "13", "14", "15"}

\* the notes of sequence ns that button id owns
NotesOf(ns, id) == Cardinality({k \in DOMAIN ns : ns[k].button_id = id})

\* this step ran the body of on_button_press / on_button_release for id
PressRan(id) == \E k \in DOMAIN emitted' : emitted'[k].op = "press" /\ emitted'[k].id = id
ReleaseRan(id) == \E k \in DOMAIN emitted' : emitted'[k].op = "release" /\ emitted'[k].id = id

\* the ids this step pressed that were not pressed before it
NewlyPressed == {id \in LogicalIds : PressRan(id) /\ ~IsPressed(button_states, id)}

\* what a step that runs on_button_press(id) does to the counters of id; the
\* number of notes it adds for id is left to the caller
PressCounts(id) ==
    /\ IsPressed(button_states', id) \/ ReleaseRan(id)
    /\ Get(button_press_count', id, 0) = Get(button_press_count, id, 0)
                                          + (IF IsPressed(button_states, id) THEN 0 ELSE 1)

C2_ReleaseOfIdleIsNoop ==
    [][(/\ emitted' # <<>>
        /\ \A k \in DOMAIN emitted' :
              /\ emitted'[k].op = "release"
              /\ ~IsPressed(button_states, emitted'[k].id))
       => UNCHANGED <<button_states, button_press_count, total_presses,
                      active_notes, notes>>]_vars

\* a release of an id that is not pressed has just run, with the store emptied by
\* an earlier reset
C2_IdleReleaseSeen ==
    /\ \E k \in DOMAIN emitted : emitted[k].op = "release" /\ ~emitted[k].applied
    /\ button_states = EmptyDict

\* ---------------------------------------------------------------------------
\* Properties of the shared lock
\* ---------------------------------------------------------------------------

\* the thread that holds global_input_lock is itself waiting to acquire it.
\* threading.Lock is not reentrant and only its holder releases it, so this state
\* is never left.
HolderWaits ==
    \/ global_input_lock = "bg" /\ bg_pc = "blocked"
    \/ global_input_lock = "fg" /\ fg_pc = "blocked"

\* C3: no thread waits forever on global_input_lock: whenever the foreground
\* loop or the background poller waits for the lock, its holder is running and
\* will release it, so every acquisition is granted.
C3_NoWaitForever == (fg_pc = "blocked" \/ bg_pc = "blocked") => ~HolderWaits

\* ---------------------------------------------------------------------------
\* Properties of the two producers
\* ---------------------------------------------------------------------------

\* every control of every device is at rest
AllAtRest ==
    \A d \in DeviceIds : /\ raw_buttons[d] = {}
                         /\ raw_hat[d] = <<0, 0>>
                         /\ raw_axes[d] = NeutralAxes

\* the world has done exactly this: taken the focus from the window, pressed one
\* button and released it
OneGestureMade ==
    /\ inputs = 3
    /\ raw_presses = 1
    /\ ~display_active
    /\ AllAtRest

\* the foreground loop has consumed every event of the gesture, or waits for the
\* lock and will consume no more
FgSettled == fg_pc = "blocked" \/ (queue = <<>> /\ events = <<>>)

\* C4: one physical press-and-release of a mapped button, seen by the event queue
\* and by the poller while the window is unfocused, leaves exactly one canonical
\* press: total_presses is 1 and the one id pressed has exactly one note (if it
\* has a lane).
C4_OnePressPerGesture ==
    (OneGestureMade /\ FgSettled) =>
       /\ total_presses = 1
       /\ \A id \in LogicalIds :
             NotesOf(notes, id) = (IF Get(button_press_count, id, 0) = 1 /\ InOrder(id)
                                   THEN 1 ELSE 0)

\* the ids that only a raw button can press: not a d-pad id (hat, left stick) and
\* not a trigger id
ButtonOnlyIds == LogicalIds \ {"12", "13", "14", "15", "6", "7"}

\* the raw buttons of the active device that map to id
RawSourcesOf(id) ==
    {i \in 0 .. Device[active_controller].numbuttons - 1 :
        get_button_mapping(controller_type, i) = id}

\* neither channel can emit again: the foreground loop waits for the lock and the
\* holder of the lock waits for it too
ChannelsDead == fg_pc = "blocked" /\ HolderWaits

\* C5: no release is lost: while an id that a raw button pressed is still marked
\* pressed and that raw button is released, a normal channel (the event queue or
\* the poller) is still able to emit the release.
C5_NoReleaseLost ==
    \A id \in ButtonOnlyIds :
       (/\ active_controller # NoDevice
        /\ IsPressed(button_states, id)
        /\ RawSourcesOf(id) # {}
        /\ RawSourcesOf(id) \cap raw_buttons[active_controller] = {})
       => ~ChannelsDead

\* ---------------------------------------------------------------------------
\* Properties of the d-pad hat
\* ---------------------------------------------------------------------------

\* this step is the foreground handling a JOYHATMOTION event of the active device
FgHatStep ==
    /\ HeadIs("JOYHATMOTION") /\ ForActive(Head(events))
    /\ <<events, fg_pc>>' # <<events, fg_pc>>

\* this step is check_global_hat reading the hat of the active device
BgHatStep ==
    /\ bg_pc = "hat" /\ bg_pc' # "hat"
    /\ Readable(active_controller) /\ Device[active_controller].numhats > 0

\* the emission functions ran for exactly the d-pad ids whose desired state
\* differs between hat vectors prev and cur
HatEdgesEmitted(prev, cur) ==
    \A id \in {"12", "13", "14", "15"} :
       /\ PressRan(id) <=> (Desired(cur)[id] /\ ~Desired(prev)[id])
       /\ ReleaseRan(id) <=> (~Desired(cur)[id] /\ Desired(prev)[id])

\* C6: whenever either path takes a new hat vector, each d-pad id gets a canonical
\* press exactly if its desired state went from false to true since the last
\* vector taken, a canonical release exactly if it went from true to false, and
\* nothing otherwise (so (-1,0) then (0,0) presses and releases "14" only).
C6_HatEdgesOnly ==
    [][/\ FgHatStep => HatEdgesEmitted(last_hat_state, Head(events).value)
       /\ BgHatStep => HatEdgesEmitted(last_hat_state, raw_hat[active_controller])]_vars

\* the d-pad ids
DpadIds == {"12", "13", "14", "15"}

\* milliseconds since the last stamp of last_hat_event_time
SinceHat == now - last_hat_event_time

\* this step is the foreground handling a JOYBUTTONDOWN / JOYBUTTONUP event of the
\* active hat-only device for a raw index that maps to a d-pad id
FgDpadButtonStep ==
    /\ HeadIs("JOYBUTTONDOWN") \/ HeadIs("JOYBUTTONUP")
    /\ ForActive(Head(events))
    /\ nintendo_hat_only
    /\ get_button_mapping(controller_type, Head(events).button) \in DpadIds
    /\ <<events, fg_pc>>' # <<events, fg_pc>>

\* this step is check_global_controller_input polling the buttons of the active
\* hat-only device
BgButtonStep ==
    /\ bg_pc = "sleep" /\ bg_pc' # "sleep"
    /\ nintendo_hat_only

\* the raw indices mapped to a d-pad id whose reading differs from the poller's
\* snapshot
DpadButtonsChanged ==
    {i \in 0 .. Device[active_controller].numbuttons - 1 :
        /\ get_button_mapping(controller_type, i) \in DpadIds
        /\ (i \in raw_buttons[active_controller]) # Get(last_global_button_states, i, FALSE)}

\* C7: on a hat-only device with the 30 ms debounce, a button-channel transition
\* of a d-pad-mapped raw index taken 10 ms after the hat stamp emits nothing, and
\* one taken 40 ms after it runs its canonical press or release, on the
\* foreground event path and on the background polling path alike.
C7_DebounceWindow ==
    [][/\ FgDpadButtonStep =>
            LET e == Head(events)
                id == get_button_mapping(controller_type, e.button)
            IN /\ SinceHat = 10 => emitted' = <<>>
               /\ SinceHat = 40 => IF e.type = "JOYBUTTONDOWN" THEN PressRan(id)
                                   ELSE ReleaseRan(id)
       /\ BgButtonStep =>
            \A i \in DpadButtonsChanged :
               LET id == get_button_mapping(controller_type, i)
               IN /\ SinceHat = 10 => emitted' = <<>>
                  /\ SinceHat = 40 => IF i \in raw_buttons[active_controller]
                                      THEN PressRan(id) ELSE ReleaseRan(id)]_vars

\* ---------------------------------------------------------------------------
\* Properties of the recovery paths
\* ---------------------------------------------------------------------------

\* the ids marked pressed while every raw button of the active device that maps
\* to them reads not pressed
StuckIds ==
    {id \in LogicalIds :
        /\ IsPressed(button_states, id)
        /\ RawSourcesOf(id) # {}
        /\ RawSourcesOf(id) \cap raw_buttons[active_controller] = {}}

\* this step is run() finding the validation timer due and validate_button_states
\* running to its end
PeriodicValidation ==
    /\ fg_pc = "update" /\ fg_pc' = "tick"
    /\ validation_timer + dt >= validation_interval_ms
    /\ ~ValidateSkips

\* this step is the v key running validate_button_states to its end
ManualValidation ==
    /\ KeyIs("v") /\ events' # events
    /\ ~ValidateSkips

\* after this step nothing of the store or of the snapshots is left
ResetDone ==
    /\ button_states' = EmptyDict
    /\ notes' = <<>>
    /\ active_notes' = EmptyDict
    /\ last_button_states' = EmptyDict
    /\ last_axis_states' = EmptyDict
    /\ last_global_button_states' = EmptyDict
    /\ last_hat_state' = <<0, 0>>
    /\ last_global_hat_state' = <<0, 0>>

\* C8: when the validation interval has elapsed, validate_button_states forces
\* the release of every id that is marked pressed while its raw button reads not
\* pressed: the release runs, the id is no longer pressed and no longer owns a
\* growing note.
C8_ValidationReleasesStuck ==
    [][PeriodicValidation =>
         \A id \in StuckIds : /\ ReleaseRan(id)
                              /\ ~IsPressed(button_states', id)
                              /\ id \notin DOMAIN active_notes']_vars

\* C9: whenever validate_button_states raises inside, it falls back to
\* emergency_cleanup: no id pressed, no notes, no growing notes, snapshots reset.
C9_ValidationFallsBack ==
    [][((PeriodicValidation \/ ManualValidation) /\ ValidateRaises) => ResetDone]_vars

\* this step is the foreground handling JOYDEVICEREMOVED for the active device
\* while some id is pressed
ActiveRemovedWhilePressed ==
    /\ HeadIs("JOYDEVICEREMOVED") /\ events' # events
    /\ active_controller # NoDevice
    /\ Head(events).joy = active_controller
    /\ \E id \in LogicalIds : IsPressed(button_states, id)

\* C10: handling the removal of the active device while ids are pressed ends in
\* a full reset: no id pressed, no notes, no growing notes, snapshots cleared.
C10_RemovalResets == [][ActiveRemovedWhilePressed => ResetDone]_vars

\* ---------------------------------------------------------------------------
\* Properties of emergency_cleanup
\* ---------------------------------------------------------------------------

\* this step is the ESC key running emergency_cleanup to its end
EscapeCleanup == KeyIs("ESCAPE") /\ events' # events

\* C11: emergency_cleanup ends with button_states, notes and active_notes empty,
\* the button and axis snapshots of both threads empty, both hat snapshots at
\* (0,0) and last_hat_event_time at 0, and leaves total_presses and
\* button_press_count as they were.
C11_CleanupPostState ==
    [][EscapeCleanup =>
         /\ ResetDone
         /\ last_hat_event_time' = 0
         /\ UNCHANGED <<total_presses, button_press_count>>]_vars

\* emergency_cleanup has just emptied a store that had counted a press
C11_CleanedAfterPress ==
    /\ total_presses >= 1
    /\ button_states = EmptyDict
    /\ notes = <<>>
    /\ last_hat_event_time = 0

\* ---------------------------------------------------------------------------
\* Properties of the note lifecycle
\* ---------------------------------------------------------------------------

\* the growing notes of the live collection that button id owns
GrowingOf(id) == {k \in DOMAIN notes : notes[k].button_id = id /\ notes[k].is_growing}

\* C12: in every reachable state each logical id owns at most one growing note.
C12_OneGrowingNotePerId == \A id \in LogicalIds : Cardinality(GrowingOf(id)) <= 1

\* an id owns a growing note next to a finished one: it was pressed, released and
\* pressed again
C12_GrowingBesideFinished ==
    \E id \in LogicalIds : Cardinality(GrowingOf(id)) = 1 /\ NotesOf(notes, id) = 2

\* C13: a released note has the height of its whole hold: 8 px plus 0.08 px for
\* each millisecond between its creation and its release, whenever the frame
\* updates ran (heights are in hundredths of a pixel).
C13_HeightOfHold ==
    \A k \in DOMAIN notes :
       (~notes[k].is_growing /\ notes[k].end_time # NoTime) =>
          notes[k].height = min_note_height * 100
                            + growth_rate * (notes[k].end_time - notes[k].start_time)

\* this step is the frame update of run(): update_ddr_notes
FrameUpdate == fg_pc = "update" /\ fg_pc' # "update"

\* the identities of the notes of sequence ns
Nids(ns) == {ns[k].nid : k \in DOMAIN ns}

\* C14: a frame update removes a released note exactly when its upward travel
\* has passed baseline + 100 (top edge + height < -100), so at the first such
\* frame and at none before it; a growing note is never removed.
C14_PurgeAtMargin ==
    [][FrameUpdate =>
         \A k \in DOMAIN notes :
            LET n == notes[k]
            IN n.nid \in Nids(notes') <=>
                  \/ n.is_growing
                  \/ n.initial_bottom - note_speed * (now - n.end_time) >= -100 * 100]_vars

\* a released note has been purged by a frame update
C14_NotePurged == notes = <<>> /\ next_nid > 1

\* ---------------------------------------------------------------------------
\* Properties of the lookup functions
\* ---------------------------------------------------------------------------

\* the families in the order their keywords are tested
Chain ==
    << [family |-> "SWITCH_PRO", words |-> {"pro controller", "switch pro"}],
       [family |-> "SNES_SWITCH", words |-> {"nintendo", "switch", "snes"}],
       [family |-> "PS4", words |-> {"ps4", "dualshock"}],
       [family |-> "PS5", words |-> {"ps5", "dualsense"}],
       [family |-> "XBOX", words |-> {"xbox", "microsoft"}] >>

\* the places of the chain one of whose keywords the name contains
Matches(name) == {k \in DOMAIN Chain : Chain[k].words \cap name # {}}

\* C15: detect_controller_type always returns a family, and it is the family of
\* the first place of the chain that the name matches, Generic if none does.
C15_PriorityChain ==
    lookup.fn = "detect_controller_type" =>
       /\ lookup.out \in Families
       /\ lookup.out = IF Matches(lookup.name) = {} THEN "GENERIC"
                       ELSE Chain[Min(Matches(lookup.name))].family

\* "SNES Controller for Switch" has been classified as SnesSwitch
C15_SnesForSwitchSeen ==
    /\ lookup.fn = "detect_controller_type"
    /\ lookup.name = {"snes", "switch"}
    /\ lookup.out = "SNES_SWITCH"

\* the table of a family's own entries
FamilyTable(family) ==
    IF family = "SWITCH_PRO" THEN SwitchProMapping
    ELSE IF family = "SNES_SWITCH" THEN SnesOverrides
    ELSE EmptyDict

\* C16 as stated: get_button_mapping returns the family's own entry for an index
\* the family table covers and the generic entry for every other index, for
\* every family.
C16_FamilyOverGeneric ==
    lookup.fn = "get_button_mapping" =>
       lookup.out = IF lookup.button \in DOMAIN FamilyTable(lookup.family)
                    THEN FamilyTable(lookup.family)[lookup.button]
                    ELSE Get(DefaultMapping, lookup.button, None)

\* C16 amended: the same for every family but SwitchPro, whose table stands alone:
\* an index it does not list (5, 15) maps to nothing.
C16_FamilyOverGenericButPro ==
    lookup.fn = "get_button_mapping" =>
       lookup.out = IF lookup.button \in DOMAIN FamilyTable(lookup.family)
                    THEN FamilyTable(lookup.family)[lookup.button]
                    ELSE IF lookup.family = "SWITCH_PRO" THEN None
                    ELSE Get(DefaultMapping, lookup.button, None)

\* raw index 5 has been looked up for SwitchPro and has no id
C16_ProIndexFiveUnmapped ==
    /\ lookup.fn = "get_button_mapping"
    /\ lookup.family = "SWITCH_PRO" /\ lookup.button = 5
    /\ lookup.out = None

\* ---------------------------------------------------------------------------
\* Properties of device discovery
\* ---------------------------------------------------------------------------

\* C17: whenever an active controller exists, nintendo_hat_only is true exactly
\* if that device reports a hat and its name contains "nintendo" or "switch",
\* after any sequence of scan, refresh, switch and removal.
C17_HatOnlyMatchesActive ==
    active_controller # NoDevice => (nintendo_hat_only <=> HatOnly(active_controller))

\* ---------------------------------------------------------------------------
\* Properties of the background poller
\* ---------------------------------------------------------------------------

\* this step is neither the world's nor the foreground loop's: every step of the
\* world counts an input and every foreground step moves fg_pc or events
NotWorldNorFg == UNCHANGED <<world, fgloc>>

\* C18: an iteration of the background poller that finds the window focused is
\* over at once: it emits nothing and changes neither the store (button_states,
\* notes, counters) nor any snapshot, whatever the raw device state.
C18_FocusedPollIsNoop ==
    [][(bg_pc = "sleep" /\ display_active /\ NotWorldNorFg) =>
          /\ emitted' = <<>>
          /\ UNCHANGED <<store, snaps, global_input_lock, bg_pc>>]_vars

\* the window is focused and the poller is between iterations while a raw button
\* that the poller has not seen is held and the foreground has pressed its id
C18_FocusedWithUnseenPress ==
    /\ display_active /\ bg_pc = "sleep" /\ global_input_lock = "free"
    /\ Readable(active_controller)
    /\ \E i \in raw_buttons[active_controller] :
          /\ ~Get(last_global_button_states, i, FALSE)
          /\ get_button_mapping(controller_type, i) # None
          /\ IsPressed(button_states, get_button_mapping(controller_type, i))

\* the raw buttons of the active device that the poller finds newly pressed,
\* mapped, and not suppressed by the hat-only rules
NewPresses ==
    {i \in 0 .. Device[active_controller].numbuttons - 1 :
        /\ i \in raw_buttons[active_controller]
        /\ ~Get(last_global_button_states, i, FALSE)
        /\ get_button_mapping(controller_type, i) # None
        /\ ~(nintendo_hat_only /\ (_hat_debounce_active \/ i \in {12, 13, 14, 15}))}

\* this step is the poller running its button loop with the window unfocused
UnfocusedButtonPoll == bg_pc = "sleep" /\ bg_pc' # "sleep" /\ ~display_active

\* C19: when the poller, with the window unfocused, observes a mapped raw button
\* newly pressed and nothing suppresses it, the button loop ends with the id
\* pressed by a canonical press (counters and note included) and with the lock
\* free.
C19_PollPresses ==
    [][UnfocusedButtonPoll =>
         \A i \in NewPresses :
            LET id == get_button_mapping(controller_type, i)
            IN /\ PressRan(id)
               /\ IsPressed(button_states', id)
               /\ global_input_lock' = "free"]_vars

\* this step is the foreground handling a JOYBUTTONDOWN / JOYBUTTONUP event of
\* the active device
FgButtonStep ==
    /\ HeadIs("JOYBUTTONDOWN") \/ HeadIs("JOYBUTTONUP")
    /\ ForActive(Head(events))
    /\ <<events, fg_pc>>' # <<events, fg_pc>>

\* C20: on a hat-only device the button channel never emits for a d-pad id:
\* neither the foreground button handlers nor the background button loop run a
\* canonical press or release of "12", "13", "14" or "15".
C20_ButtonChannelNeverDpad ==
    [][(nintendo_hat_only /\ (FgButtonStep \/ BgButtonStep)) =>
          \A k \in DOMAIN emitted' : emitted'[k].id \notin DpadIds]_vars

\* ---------------------------------------------------------------------------
\* Properties of the debounce window
\* ---------------------------------------------------------------------------

\* the most recent hat event (a JOYHATMOTION event handled, a changed vector
\* read by the poller) is older than the debounce window, or there was none
HatQuiet == hat_moved = NoTime \/ now - hat_moved > hat_button_debounce_ms

\* the raw indices mapped to an id that is not a d-pad id whose reading differs
\* from the poller's snapshot
OtherButtonsChanged ==
    {i \in 0 .. Device[active_controller].numbuttons - 1 :
        /\ get_button_mapping(controller_type, i) \in LogicalIds \ DpadIds
        /\ (i \in raw_buttons[active_controller]) # Get(last_global_button_states, i, FALSE)}

\* C21: on a hat-only device the debounce window expires: a transition of a raw
\* button mapped to an id that is not a d-pad id, taken more than 30 ms after the
\* most recent hat event, is emitted: the foreground handler and the poller's
\* button loop each run the emission function for it, or at least arrive at its
\* call, also when the poller has re-read the unchanged hat since.
C21_DebounceExpires ==
    [][HatQuiet =>
         /\ (FgButtonStep /\ nintendo_hat_only) =>
               LET e == Head(events)
                   id == get_button_mapping(controller_type, e.button)
               IN id \in LogicalIds \ DpadIds =>
                     \/ fg_pc' = "blocked"
                     \/ IF e.type = "JOYBUTTONDOWN" THEN PressRan(id) ELSE ReleaseRan(id)
         /\ BgButtonStep =>
               \A i \in OtherButtonsChanged :
                  LET id == get_button_mapping(controller_type, i)
                  IN \/ bg_pc' = "blocked"
                     \/ IF i \in raw_buttons[active_controller]
                        THEN PressRan(id) ELSE ReleaseRan(id)]_vars

\* ---------------------------------------------------------------------------
\* Properties of the shared state
\* ---------------------------------------------------------------------------

\* this step runs emergency_cleanup to its end
CleanupStep ==
    /\ KeyIs("ESCAPE") \/ KeyIs("r") \/ KeyIs("TAB")
    /\ events' # events

\* this step acquires global_input_lock: the lock is taken by the emission
\* functions, by emergency_cleanup and by the poller around its emission calls,
\* and nowhere else
TakesLock == emitted' # <<>> \/ CleanupStep \/ global_input_lock' # global_input_lock

\* C22: every write to the Button State Store, to the active-notes map and to
\* the last-known raw-state snapshots (button-index maps, hat tuples, axis
\* direction map, last hat event time), by either thread, is made while
\* global_input_lock is held: a step that changes one of them acquires the lock.
C22_WritesUnderLock ==
    [][(<<button_states, active_notes>>' # <<button_states, active_notes>> \/ snaps' # snaps)
          => TakesLock]_vars

\* this step is a step of the background poller that reads the device
BgStep == bg_pc' # bg_pc

\* this step is a step of the foreground loop that handles an event or the axes
\* and is not emergency_cleanup
FgInputStep == fg_pc = "events" /\ <<events, fg_pc>>' # <<events, fg_pc>> /\ ~CleanupStep

\* C23: each path keeps its own last-known snapshots: the poller detects its hat
\* edges against its own hat snapshot (last_global_hat_state) and writes neither
\* the hat snapshot nor the axis directions that the foreground handlers compare
\* with, and the foreground handlers write no snapshot of the poller.
C23_SeparateSnapshots ==
    [][/\ BgStep => UNCHANGED <<last_hat_state, last_axis_states>>
       /\ BgHatStep => (bg_pc' = "blocked" <=>
                           HatCalls(last_global_hat_state, raw_hat[active_controller]) # <<>>)
       /\ FgInputStep => UNCHANGED <<last_global_button_states, last_global_hat_state>>]_vars

\* ---------------------------------------------------------------------------
\* Properties of note creation
\* ---------------------------------------------------------------------------

\* the places of notes' that hold a note which was not in notes
NewNotes == {k \in DOMAIN notes' : notes'[k].nid \notin Nids(notes)}

\* this step created exactly one note, a growing one that id owns and that
\* active_notes registers for id
OneNewGrowingNote(id) ==
    /\ Cardinality({k \in NewNotes : notes'[k].button_id = id}) = 1
    /\ \A k \in NewNotes :
          notes'[k].button_id = id =>
             /\ notes'[k].is_growing
             /\ id \in DOMAIN active_notes' /\ active_notes'[id] = notes'[k].nid

\* this step created no note that id owns
NoNewNote(id) == \A k \in NewNotes : notes'[k].button_id # id

\* C24 as stated: every canonical press that changes the store (the id goes from
\* not pressed to pressed) creates exactly one new growing note owned by the id,
\* for every logical id the mapping tables produce, "10" and "11" included.
C24_PressCreatesNote ==
    [][\A id \in NewlyPressed : OneNewGrowingNote(id)]_vars

\* C24 amended: such a press creates exactly one new growing note owned by the
\* id when the id has a lane in BUTTON_ORDER, and no note when it has none ("10"
\* and "11", which only the Switch Pro table produces).
C24_PressCreatesNoteInLane ==
    [][\A id \in NewlyPressed :
          IF InOrder(id) THEN OneNewGrowingNote(id) ELSE NoNewNote(id)]_vars

\* raw button 7 of the Switch Pro controller has pressed "10" and no note exists
C24_HomePressedWithoutNote ==
    /\ IsPressed(button_states, "10")
    /\ Get(button_press_count, "10", 0) = 1
    /\ notes = <<>> /\ active_notes = EmptyDict

\* the released notes of the live collection that button id owns
ReleasingOf(id) == {k \in DOMAIN notes : notes[k].button_id = id /\ ~notes[k].is_growing}

\* C25 as stated: a press of an id creates no new note while a note owned by the
\* id is still in the live collection, be it growing or released and not yet
\* purged.
C25_NoNoteWhileOneLives ==
    [][\A id \in LogicalIds :
          (PressRan(id) /\ (GrowingOf(id) # {} \/ ReleasingOf(id) # {})) => NoNewNote(id)]_vars

\* C25 amended: a press of an id creates no new note while a growing note owned
\* by the id exists; a released note that is still travelling does not stand in
\* the way: a press of a lane id that owns only released notes creates one.
C25_NoNoteWhileOneGrows ==
    [][\A id \in LogicalIds :
          PressRan(id) =>
             /\ GrowingOf(id) # {} => NoNewNote(id)
             /\ (GrowingOf(id) = {} /\ ReleasingOf(id) # {} /\ InOrder(id)
                 /\ ~IsPressed(button_states, id)) => OneNewGrowingNote(id)]_vars

\* a press of a held id has just run while the id's note was growing, and the
\* note is still the only one
C25_PressedWhileGrowing ==
    /\ \E k \in DOMAIN emitted : /\ emitted[k].op = "press" /\ ~emitted[k].applied
                                 /\ GrowingOf(emitted[k].id) # {}
                                 /\ NotesOf(notes, emitted[k].id) = 1
    /\ Len(notes) = 1 /\ next_nid = 2

\* ---------------------------------------------------------------------------
\* Properties of the life of a note
\* ---------------------------------------------------------------------------

\* C26: the life of a note goes one way.  A note that is released stays
\* released, keeps its release time and keeps its height in every later step,
\* frame updates included, for as long as it is in the live collection; and a
\* note that has left the live collection never comes back: every note a step
\* adds is a new object.
C26_OneWayLifecycle ==
    [][/\ \A k \in DOMAIN notes : \A j \in DOMAIN notes' :
             (~notes[k].is_growing /\ notes'[j].nid = notes[k].nid) =>
                /\ ~notes'[j].is_growing
                /\ notes'[j].end_time = notes[k].end_time
                /\ notes'[j].height = notes[k].height
       /\ \A j \in NewNotes : notes'[j].nid >= next_nid /\ notes'[j].is_growing
       /\ next_nid' >= next_nid]_vars

\* a released note has travelled for 3966 ms, one step short of the purge line,
\* with the height it was released with
C26_ReleasedNoteTravelled ==
    \E k \in DOMAIN notes :
       /\ ~notes[k].is_growing
       /\ notes[k].end_time # NoTime
       /\ notes[k].y = notes[k].initial_bottom - notes[k].height - 3966 * note_speed

\* the note of sequence ns whose identity is nid
NoteOf(ns, nid) == ns[CHOOSE k \in DOMAIN ns : ns[k].nid = nid]

\* C27: at every frame update at time T, a note released at time r that stays in
\* the live collection has its top edge at baseline - height - 0.15 * (T - r),
\* with the height it was released with (in hundredths of a pixel: baseline -
\* 19800 for height 4800 and T - r = 1000), and no step moves the top edge of a
\* released note down.
C27_TopEdgeOfReleased ==
    [][/\ FrameUpdate =>
            \A j \in DOMAIN notes' :
               LET n == notes'[j]
               IN (~n.is_growing /\ n.end_time # NoTime) =>
                     /\ n.y = n.initial_bottom - n.height - note_speed * (now - n.end_time)
                     /\ (n.height = 4800 /\ now - n.end_time = 1000) =>
                            n.y = n.initial_bottom - 19800
       /\ \A k \in DOMAIN notes :
             (~notes[k].is_growing /\ notes[k].nid \in Nids(notes')) =>
                NoteOf(notes', notes[k].nid).y <= notes[k].y]_vars

\* a note 48 px high has travelled for a second: its top edge is 198 px above
\* the baseline
C27_TravelledOneSecond ==
    \E k \in DOMAIN notes :
       /\ ~notes[k].is_growing
       /\ notes[k].height = 4800
       /\ last_tick - notes[k].end_time = 1000
       /\ notes[k].y = notes[k].initial_bottom - 19800

\* the first whole millisecond of travel at which a released note is past the
\* purge line: baseline + 100 px at 0.15 px/ms
PurgeTime == ((lane_height - initial_bottom) * 100 + 100 * 100) \div note_speed + 1

\* C28: every released note is purged once the foreground loop runs a frame
\* late enough: every released note carries its release time, and a frame
\* update leaves no released note behind whose release is PurgeTime (3967 ms)
\* or more ago, so the live collection keeps no released note for longer than
\* that plus one frame.
C28_ReleasedNotesLeave ==
    [][/\ \A k \in DOMAIN notes : ~notes[k].is_growing => notes[k].end_time # NoTime
       /\ FrameUpdate =>
             \A j \in DOMAIN notes' :
                ~notes'[j].is_growing => now - notes'[j].end_time < PurgeTime]_vars

\* the one note ever made was released, 3967 ms have passed and the frame update
\* that followed has emptied the live collection
C28_CollectionEmptied ==
    /\ notes = <<>> /\ next_nid = 2 /\ total_presses = 1
    /\ ~IsPressed(button_states, "1")
    /\ fg_pc = "tick" /\ last_tick = now
    /\ now = 100 + PurgeTime

\* ---------------------------------------------------------------------------
\* Properties of the left stick
\* ---------------------------------------------------------------------------

\* this step is handle_joystick_axes and handle_trigger_axes at the end of
\* handle_events
FgAxesStep == fg_pc = "events" /\ events = <<>> /\ fg_pc' # fg_pc

\* this step is the poller at check_global_joystick_axes
BgStickStep == bg_pc = "stick" /\ bg_pc' # "stick"

\* C29: while the active controller's family is SnesSwitch, no value of axes 0
\* and 1 makes the foreground axis handler or the poller's stick check run a
\* canonical press or release of a d-pad id, or so much as arrive at the call
\* of one.
C29_SnesSticksIgnored ==
    [][(controller_type = "SNES_SWITCH" /\ (FgAxesStep \/ BgStickStep)) =>
          /\ \A k \in DOMAIN emitted' : emitted'[k].id \notin DpadIds
          /\ BgStickStep => bg_pc' # "blocked"
          /\ (FgAxesStep /\ fg_pc' = "blocked") =>
                AxisCalls(FgTrigger, last_axis_states) # <<>>]_vars

\* the stick of the SNES controller is pushed fully left and up, the foreground
\* handler and the poller have both looked at the axes, and no id is pressed
C29_SnesStickDeflectedUnseen ==
    /\ controller_type = "SNES_SWITCH" /\ active_controller = 3
    /\ raw_axes[3][0] = -10 /\ raw_axes[3][1] = -10
    /\ fg_pc = "update" /\ bg_pc = "trigger"
    /\ button_states = EmptyDict /\ last_axis_states = EmptyDict

\* the emission functions ran for exactly the stick directions whose condition
\* differs from the one last recorded: a press where it became true, a release
\* where it became false, nothing where it is unchanged
RECURSIVE StickEdgesEmitted(_)
StickEdgesEmitted(dirs) ==
    dirs = <<>> \/
       LET x == Head(dirs)
           was == Get(last_axis_states, x[1], FALSE)
       IN /\ PressRan(x[3]) <=> (x[2] /\ ~was)
          /\ ReleaseRan(x[3]) <=> (~x[2] /\ was)
          /\ StickEdgesEmitted(Tail(dirs))

\* the active controller is readable, has two axes and is not of the SnesSwitch
\* family
StickInUse ==
    /\ Readable(active_controller)
    /\ Device[active_controller].numaxes >= 2
    /\ controller_type # "SNES_SWITCH"

\* C30: for the other families each stick direction (left: axis 0 < -0.5,
\* right: axis 0 > 0.5, up: axis 1 < -0.5, down: axis 1 > 0.5) gets a canonical
\* press of its d-pad id exactly when its condition goes from false to true and
\* a release exactly when it goes from true to false, each direction on its
\* own, in the foreground handler and in the poller's stick check alike; a value
\* of exactly +/-0.5 is neutral and an unchanged condition emits nothing.
C30_StickEdges ==
    [][(StickInUse /\ (FgAxesStep \/ BgStickStep)) =>
          StickEdgesEmitted(StickDirections(raw_axes[active_controller]))]_vars

\* ---------------------------------------------------------------------------
\* Properties of the analog triggers
\* ---------------------------------------------------------------------------

\* this step is the poller at check_global_trigger_axes
BgTriggerStep == bg_pc = "trigger" /\ bg_pc' # "trigger"

\* the emission functions ran for id exactly as the condition of its trigger
\* axis a changed against the one recorded under key: a press where it became
\* true, a release where it became false; nothing if the device has fewer than
\* least axes
TriggerEdgeEmitted(key, a, id, least) ==
    LET has == Device[active_controller].numaxes >= least
        pressed == raw_axes[active_controller][a] > threshold
        was == Get(last_axis_states, key, FALSE)
    IN /\ PressRan(id) <=> (has /\ pressed /\ ~was)
       /\ ReleaseRan(id) <=> (has /\ ~pressed /\ was)

\* C31: the analog triggers are virtual buttons by axis count alone.  With at
\* least 5 axes, axis 4 going above 0.5 runs the press of "6" and axis 4 falling
\* to 0.5 or below runs its release; with at least 6 axes the same holds for
\* axis 5 and "7"; with fewer than 5 axes no axis value runs an emission for "6"
\* or "7"; an unchanged condition emits nothing.  This holds for the foreground
\* handler and for the poller.
C31_TriggerEdges ==
    [][(Readable(active_controller) /\ (FgAxesStep \/ BgTriggerStep)) =>
          /\ TriggerEdgeEmitted("zl_axis", 4, "6", 5)
          /\ TriggerEdgeEmitted("zr_axis", 5, "7", 6)]_vars

\* on the controller with 5 axes the left trigger has been pulled and let go to
\* exactly 0.5: "6" was pressed once and is released again
C31_LeftTriggerLetGo ==
    /\ active_controller = 5
    /\ raw_axes[5][4] = 5
    /\ Get(button_press_count, "6", 0) = 1
    /\ ~IsPressed(button_states, "6")
    /\ Get(last_axis_states, "zl_axis", TRUE) = FALSE

\* ---------------------------------------------------------------------------
\* Properties of the mapping miss
\* ---------------------------------------------------------------------------

\* the raw indices of the active device whose reading differs from the poller's
\* snapshot
ButtonsChanged ==
    {i \in 0 .. Device[active_controller].numbuttons - 1 :
        (i \in raw_buttons[active_controller]) # Get(last_global_button_states, i, FALSE)}

\* C32: a raw button event, or a transition the poller finds, whose index has no
\* entry in the active family's mapping table is dropped in silence: no emission
\* function runs, button_states, the counters, notes and active_notes stay as
\* they are, and the thread goes on (the event is consumed, the poll continues
\* with the hat).
C32_MappingMissDropped ==
    [][/\ (FgButtonStep /\ Head(events).button \notin DOMAIN MappingTable(controller_type)) =>
             /\ emitted' = <<>>
             /\ UNCHANGED <<button_states, button_press_count, total_presses,
                            notes, active_notes>>
             /\ fg_pc' = fg_pc /\ events' = Tail(events)
       /\ (bg_pc = "sleep" /\ bg_pc' # "sleep" /\ ButtonsChanged # {}
           /\ ButtonsChanged \cap DOMAIN MappingTable(controller_type) = {}) =>
             /\ emitted' = <<>>
             /\ UNCHANGED <<button_states, button_press_count, total_presses,
                            notes, active_notes>>
             /\ bg_pc' = "hat" /\ global_input_lock' = global_input_lock]_vars

\* raw button 5 of the Switch Pro controller is held, its event has been handled
\* and the poller has recorded it, and nothing was ever pressed
C32_UnmappedButtonSeen ==
    /\ 5 \in raw_buttons[1]
    /\ queue = <<>> /\ events = <<>>
    /\ Get(last_global_button_states, 5, FALSE)
    /\ button_states = EmptyDict /\ total_presses = 0 /\ notes = <<>>
    /\ fg_pc # "blocked" /\ bg_pc # "blocked"

\* ---------------------------------------------------------------------------
\* Properties of shutdown
\* ---------------------------------------------------------------------------

\* C33: shutdown terminates.  cleanup puts global_input_enabled down and waits
\* for the poller no longer than the join timeout: once a second has passed
\* since it began to wait it can return whatever the poller does, a poller that
\* is blocked on the lock included, and it returns at once if the poller has
\* ended; a poller that is not blocked starts no further iteration and ends at
\* its next test of the flag.
C33_ShutdownTerminates ==
    /\ [][/\ (fg_pc = "cleanup" /\ fg_pc' # "cleanup") =>
                /\ ~global_input_enabled'
                /\ fg_pc' = IF bg_pc = "exited" THEN "done" ELSE "join"
          /\ (fg_pc = "join" /\ fg_pc' # "join") => fg_pc' = "done"
          /\ (~global_input_enabled /\ bg_pc = "sleep" /\ bg_pc' # "sleep") =>
                bg_pc' = "exited"
          /\ ~global_input_enabled => ~global_input_enabled']_vars
    /\ [](fg_pc = "join" =>
            /\ ~global_input_enabled
            /\ (bg_pc = "exited" \/ now - join_started >= join_timeout_ms) => ENABLED FgJoin
            /\ (bg_pc = "sleep") => ENABLED BgExit)

\* cleanup has returned after a second although the poller is blocked on the
\* lock it holds
C33_ReturnedWhilePollerBlocked ==
    /\ fg_pc = "done" /\ ~global_input_enabled
    /\ bg_pc = "blocked" /\ global_input_lock = "bg"
    /\ now - join_started >= join_timeout_ms

\* ---------------------------------------------------------------------------
\* Properties of the store as a whole
\* ---------------------------------------------------------------------------

\* this step runs emergency_cleanup to its end: Escape, a refresh, or a switch
\* among two controllers or more
CleanupRan ==
    /\ \/ KeyIs("ESCAPE")
       \/ KeyIs("r")
       \/ KeyIs("TAB") /\ Cardinality(DOMAIN controllers) > 1
    /\ events' # events

\* the emission bodies this step ran for id, in order
EmittedFor(id) == SelectSeq(emitted', LAMBDA e : e.id = id)

\* C34: button_states follows the emission bodies and emergency_cleanup and
\* nothing else.  In every step, an id for which an emission body ran is marked
\* pressed afterwards exactly if the last body run for it was on_button_press;
\* a step that runs emergency_cleanup leaves no id marked pressed; any other
\* step leaves button_states as it was.  So in every state an id is marked
\* pressed iff the last transition emitted for it since the last cleanup was a
\* press.
C34_StateFollowsEmissions ==
    [][/\ \A id \in LogicalIds :
            LET ran == EmittedFor(id)
            IN IF ran # <<>>
               THEN IsPressed(button_states', id) = (ran[Len(ran)].op = "press")
               ELSE IF CleanupRan
               THEN ~IsPressed(button_states', id)
               ELSE IsPressed(button_states', id) = IsPressed(button_states, id)
       /\ (emitted' = <<>> /\ ~CleanupRan) => button_states' = button_states
       /\ DOMAIN button_states' \subseteq LogicalIds]_vars

\* an id was released by the step that led here and is marked released, while
\* another id is still marked pressed
C34_ReleasedAndHeld ==
    \E k \in DOMAIN emitted :
        /\ emitted[k].op = "release" /\ emitted[k].applied
        /\ ~IsPressed(button_states, emitted[k].id)
        /\ \E id \in LogicalIds : IsPressed(button_states, id)

\* sum(button_press_count.values())
RECURSIVE SumOver(_, _)
SumOver(d, ids) ==
    IF ids = {} THEN 0
    ELSE LET id == CHOOSE x \in ids : TRUE
         IN d[id] + SumOver(d, ids \ {id})

\* this step ran on_button_press for an id that was not marked pressed
CountingPress == \E k \in DOMAIN emitted' : emitted'[k].op = "press" /\ emitted'[k].applied

\* C35: total_presses is always the sum of button_press_count over all ids, and
\* neither counter ever decreases: a step that runs no counting press, be it a
\* release, a purge, an emergency cleanup, a refresh or a switch, leaves both as
\* they were.
C35_CountersAgreeAndGrow ==
    /\ [](total_presses = SumOver(button_press_count, DOMAIN button_press_count))
    /\ [][/\ total_presses' >= total_presses
          /\ \A id \in DOMAIN button_press_count :
                /\ id \in DOMAIN button_press_count'
                /\ button_press_count'[id] >= button_press_count[id]
          /\ ~CountingPress => <<total_presses, button_press_count>>'
                                 = <<total_presses, button_press_count>>]_vars

\* presses were counted, then the controller was switched, which cleaned the
\* store up, and the note of the press is gone
C35_CountedThenSwitched ==
    /\ total_presses >= 1
    /\ active_controller = 2
    /\ button_states = EmptyDict /\ notes = <<>>

\* C36: active_notes and the store agree.  An id has an entry in active_notes
\* iff it is marked pressed and has a lane in BUTTON_ORDER; the note of every
\* entry is one note of the live collection, owned by that id, growing and
\* without a release time; and every growing note of the live collection is the
\* entry of its id.
C36_ActiveNotesAgree ==
    /\ \A id \in LogicalIds :
          (id \in DOMAIN active_notes) = (IsPressed(button_states, id) /\ InOrder(id))
    /\ DOMAIN active_notes \subseteq LogicalIds
    /\ \A id \in DOMAIN active_notes :
          /\ Cardinality({k \in DOMAIN notes : notes[k].nid = active_notes[id]}) = 1
          /\ \A k \in DOMAIN notes : notes[k].nid = active_notes[id] =>
                /\ notes[k].button_id = id
                /\ notes[k].is_growing
                /\ notes[k].end_time = NoTime
    /\ \A k \in DOMAIN notes : notes[k].is_growing =>
          /\ notes[k].button_id \in DOMAIN active_notes
          /\ active_notes[notes[k].button_id] = notes[k].nid

\* an id with a lane is held and owns the growing note of its entry, while an
\* id without a lane is held and has no entry
C36_LaneHeldAndLanelessHeld ==
    /\ \E id \in LogicalIds : /\ ~InOrder(id)
                              /\ IsPressed(button_states, id)
                              /\ id \notin DOMAIN active_notes
    /\ \E id \in DOMAIN active_notes, k \in DOMAIN notes :
          notes[k].nid = active_notes[id] /\ notes[k].is_growing

\* ---------------------------------------------------------------------------
\* Properties of device selection
\* ---------------------------------------------------------------------------

\* C37: after the initial scan and after any refresh, switch and device-removed
\* event, whenever there is an active controller, controller_type is what
\* detect_controller_type returns for that controller's name.
C37_TypeOfActiveDevice ==
    active_controller # NoDevice =>
        controller_type = detect_controller_type(Device[active_controller].name)

\* the controller that was active at the start has been unplugged and the other
\* one has become the active one
C37_SecondDeviceTookOver ==
    /\ active_controller = 2
    /\ ~Readable(1)
    /\ controller_type = detect_controller_type(Device[2].name)
    /\ controller_type # detect_controller_type(Device[1].name)

\* ---------------------------------------------------------------------------
\* Properties of aliased sources
\* ---------------------------------------------------------------------------

\* a physical source of id on the active device is held: a raw button that maps
\* to it, or for "14" the hat or the stick pushed left
SourceHeld(id) ==
    /\ active_controller # NoDevice
    /\ \/ \E i \in raw_buttons[active_controller] :
              get_button_mapping(controller_type, i) = id
       \/ id = "14" /\ raw_hat[active_controller][1] = -1
       \/ id = "14" /\ raw_axes[active_controller][0] < -deadzone

\* id owns no growing note
NoGrowingNote(id) ==
    /\ id \notin DOMAIN active_notes
    /\ \A k \in DOMAIN notes : notes[k].button_id = id => ~notes[k].is_growing

\* C38: with several physical sources of one id, the release of the first one is
\* the canonical release.  A step whose last emission for id is a release
\* leaves id marked released and without a growing note whether or not another
\* source of id is still held, and a release of an id that is not marked
\* pressed, such as the release of the second source, changes nothing.
C38_FirstReleaseReleases ==
    [][\A id \in LogicalIds :
          LET ran == EmittedFor(id)
          IN /\ (ran # <<>> /\ ran[Len(ran)].op = "release") =>
                   /\ ~IsPressed(button_states', id)
                   /\ NoGrowingNote(id)'
             /\ (Len(emitted') = 1 /\ ran # <<>> /\ ran[1].op = "release"
                 /\ ~IsPressed(button_states, id)) =>
                   /\ ~ran[1].applied
                   /\ store' = store]_vars

\* the first of two held sources of an id was let go: the id is marked released
\* and its note has stopped growing while the second source is still held
C38_ReleasedWhileHeld ==
    \E id \in LogicalIds :
        /\ SourceHeld(id)
        /\ ~IsPressed(button_states, id) /\ id \in DOMAIN button_states
        /\ \E k \in DOMAIN emitted : /\ emitted[k].id = id
                                     /\ emitted[k].op = "release" /\ emitted[k].applied
        /\ \E k \in DOMAIN notes : notes[k].button_id = id /\ ~notes[k].is_growing

\* ---------------------------------------------------------------------------
\* Properties of events of other devices
\* ---------------------------------------------------------------------------

\* this step is the foreground handler of a button or hat event that came from
\* a device other than the active one
ForeignEventStep ==
    /\ HeadIs("JOYBUTTONDOWN") \/ HeadIs("JOYBUTTONUP") \/ HeadIs("JOYHATMOTION")
    /\ ~ForActive(Head(events))
    /\ events' # events

\* C39: a button or hat event of a device other than the active one changes
\* nothing on the foreground path: the store (button_states, counters, notes),
\* the hat snapshot and last_hat_event_time stay as they were and no emission
\* function runs.
C39_ForeignEventChangesNothing ==
    [][ForeignEventStep =>
          /\ emitted' = <<>>
          /\ store' = store
          /\ last_hat_state' = last_hat_state
          /\ last_hat_event_time' = last_hat_event_time]_vars

====
